---------------------------- MODULE RouterProofs ----------------------------
(***************************************************************************)
(* Proofs about Router for every value of its constants: any number of     *)
(* streams and of frames.                                                  *)
(***************************************************************************)
EXTENDS Router, TLAPS

-----------------------------------------------------------------------------
(* The two ends of a stream *)

(* The other end is an end of the same stream, and there is no third. *)
LEMMA OtherEnd ==
  ASSUME NEW c \in Ends
  PROVE  /\ c[1] \in Names
         /\ Other(c) \in Ends /\ Other(c) # c
         /\ Other(Other(c)) = c
         /\ \A d \in Ends : d[1] = c[1] /\ d # c => d = Other(c)
<1>1. PICK n \in Names, side \in {"client", "exporter"} : c = <<n, side>>
  BY DEF Ends
<1>2. Other(c) = <<n, IF side = "client" THEN "exporter" ELSE "client">>
  BY <1>1 DEF Other
<1>3. Other(c) \in Ends /\ Other(c) # c
  BY <1>1, <1>2 DEF Ends
<1>4. Other(Other(c)) = c
  BY <1>1, <1>2 DEF Other
<1>5. ASSUME NEW d \in Ends, d[1] = c[1], d # c
      PROVE  d = Other(c)
  <2>1. PICK m \in Names, s \in {"client", "exporter"} : d = <<m, s>>
    BY DEF Ends
  <2>. QED BY <1>1, <1>2, <1>5, <2>1
<1>. QED BY <1>1, <1>3, <1>4, <1>5

(* An idle pipe is well typed, and so is one that starts. *)
LEMMA IdleType ==
  /\ Idle \in Pipe /\ Idle.state = "off"
  /\ \A d \in Ends : LET p == [Idle EXCEPT !.state = "recv", !.to = d]
                     IN  p \in Pipe /\ p.state = "recv" /\ p.to = d
BY DEF Idle, Pipe

(* What Finish makes of a pipe. *)
LEMMA FinishResult ==
  ASSUME pipe \in [Ends -> Pipe], NEW c \in Ends,
         NEW result \in {"recv", "nil", "err"}, Finish(c, result)
  PROVE  /\ pipe' \in [Ends -> Pipe]
         /\ pipe'[c].state = result /\ pipe'[c].to = pipe[c].to
         /\ \A d \in Ends : d # c => pipe'[d] = pipe[d]
BY DEF Finish, Pipe

-----------------------------------------------------------------------------
(* Frames *)

(* The number of frames received is one. *)
LEMMA TakenType ==
  ASSUME SafetyInv, NEW c \in Ends
  PROVE  Len(out[Other(c)]) \in Nat /\ Taken(c) \in Nat
<1>1. out[Other(c)] \in Seq(Frame)
  BY OtherEnd DEF SafetyInv, TypeOK
<1>2. Len(out[Other(c)]) \in Nat
  BY <1>1
<1>. QED BY <1>2 DEF Taken

(* Steps that leave the frames alone and start no pipe anew. *)
LEMMA FramesKept ==
  ASSUME SafetyInv, TypeOK', Paired', UNCHANGED <<inbox, sent, out>>,
         \A c \in Ends : \/ pipe'[c] = pipe[c]
                         \/ pipe'[c].state \in {"nil", "err"}
                         \/ pipe[c].state = "off" /\ pipe'[c].state = "recv"
  PROVE  SafetyInv'
<1>1. ASSUME NEW c \in Ends
      PROVE  InOrder(c)'
  <2>1. InOrder(c) /\ Other(c) \in Ends
    BY OtherEnd DEF SafetyInv
  <2>2. CASE pipe'[c] = pipe[c]
    BY <2>1, <2>2 DEF InOrder, Finished, Taken
  <2>3. CASE pipe'[c].state \in {"nil", "err"}
    BY <2>3 DEF InOrder, Finished
  <2>4. CASE pipe[c].state = "off" /\ pipe'[c].state = "recv"
    BY <2>1, <2>4 DEF InOrder, Finished, Taken
  <2>. QED BY <2>2, <2>3, <2>4
<1>2. Faithful'
  BY DEF SafetyInv, Faithful
<1>. QED BY <1>1, <1>2 DEF SafetyInv

(* Steps that change neither pipes nor frames. *)
LEMMA EndsMove ==
  ASSUME SafetyInv, TypeOK', UNCHANGED <<pending, inbox, sent, out, pipe>>,
         \A c \in Ends : remote[c] # "away" => remote'[c] # "away"
  PROVE  SafetyInv'
<1>1. Paired'
  <2>1. ASSUME NEW n \in Names, pending'[n] # None
        PROVE  pending'[n][1] = n /\ remote'[pending'[n]] # "away"
    BY <2>1 DEF SafetyInv, Paired, TypeOK
  <2>2. ASSUME NEW c \in Ends, pipe'[c].state # "off"
        PROVE  pipe'[c].to = Other(c) /\ remote'[c] # "away" /\ remote'[Other(c)] # "away"
    BY <2>2, OtherEnd DEF SafetyInv, Paired
  <2>. QED BY <2>1, <2>2 DEF Paired
<1>. QED BY <1>1, FramesKept

(* The two ends keep the invariant. *)
LEMMA RemoteSafe ==
  ASSUME SafetyInv, NEW c \in Ends, SendFrame(c) \/ CloseSend(c) \/ Break(c)
  PROVE  SafetyInv'
<1>1. CASE CloseSend(c) \/ Break(c)
  <2>1. TypeOK'
    BY <1>1 DEF CloseSend, Break, SafetyInv, TypeOK
  <2>2. \A d \in Ends : remote[d] # "away" => remote'[d] # "away"
    BY <1>1 DEF CloseSend, Break, SafetyInv, TypeOK
  <2>. QED BY <1>1, <2>1, <2>2, EndsMove DEF CloseSend, Break
<1>2. CASE SendFrame(c)
  <2>. DEFINE f == [from |-> c, number |-> sent[c] + 1]
  <2>1. /\ sent[c] < MaxFrames /\ sent' = [sent EXCEPT ![c] = @ + 1]
        /\ inbox' = [inbox EXCEPT ![c] = Append(@, f)]
        /\ UNCHANGED <<remote, handler, pending, stopped, out, pipe>>
    BY <1>2 DEF SendFrame
  <2>2. f \in Frame /\ sent[c] + 1 \in 0..MaxFrames
    BY <2>1, FramesAssumption DEF Frame, SafetyInv, TypeOK
  <2>3. TypeOK'
    BY <2>1, <2>2 DEF SafetyInv, TypeOK
  <2>4. Paired' /\ Faithful'
    BY <2>1 DEF SafetyInv, Paired, Faithful
  <2>5. InOrder(c)'
    <3>. SUFFICES ASSUME ~Finished(c) PROVE InOrder(c)'
      BY <2>1 DEF InOrder, Finished
    <3>1. /\ sent[c] = Taken(c) + Len(inbox[c])
          /\ \A i \in 1..Len(inbox[c]) : inbox[c][i] = [from |-> c, number |-> Taken(c) + i]
          /\ pipe[c].state = "send" =>
               pipe[c].frame = [from |-> c, number |-> Len(out[Other(c)]) + 1]
      BY DEF SafetyInv, InOrder
    <3>2. Taken(c)' = Taken(c) /\ Taken(c) \in Nat
      BY <2>1, TakenType DEF Taken
    <3>3. /\ inbox[c] \in Seq(Frame) /\ inbox'[c] = Append(inbox[c], f)
          /\ sent'[c] = sent[c] + 1 /\ sent[c] \in Nat
      BY <2>1, FramesAssumption DEF SafetyInv, TypeOK
    <3>4. sent'[c] = Taken(c) + Len(inbox'[c])
      BY <3>1, <3>2, <3>3
    <3>5. ASSUME NEW i \in 1..Len(inbox'[c])
          PROVE  inbox'[c][i] = [from |-> c, number |-> Taken(c) + i]
      BY <3>1, <3>2, <3>3
    <3>. QED BY <2>1, <3>1, <3>2, <3>4, <3>5 DEF InOrder
  <2>6. ASSUME NEW d \in Ends, d # c
        PROVE  InOrder(d)'
    BY <2>1, <2>6 DEF SafetyInv, TypeOK, InOrder, Finished, Taken
  <2>. QED BY <2>3, <2>4, <2>5, <2>6 DEF SafetyInv
<1>. QED BY <1>1, <1>2

(* Stream keeps the invariant: LoadOrStore joins the two ends of a name. *)
LEMMA StreamSafe ==
  ASSUME SafetyInv, NEW c \in Ends, Stream(c)
  PROVE  SafetyInv'
<1>1. /\ remote[c] = "away" /\ remote' = [remote EXCEPT ![c] = "open"]
      /\ UNCHANGED <<stopped, inbox, sent, out>>
  BY DEF Stream
<1>2. c[1] \in Names /\ Other(c) \in Ends
  BY OtherEnd
<1>3. \A d \in Ends : remote[d] # "away" => remote'[d] # "away"
  BY <1>1 DEF SafetyInv, TypeOK
<1>4. CASE /\ pending' = [pending EXCEPT ![c[1]] = c]
           /\ handler' = [handler EXCEPT ![c] = "waiting"]
           /\ UNCHANGED pipe
  <2>1. TypeOK'
    BY <1>1, <1>2, <1>4 DEF SafetyInv, TypeOK
  <2>2. Paired'
    <3>1. ASSUME NEW n \in Names, pending'[n] # None
          PROVE  pending'[n][1] = n /\ remote'[pending'[n]] # "away"
      <4>1. CASE n = c[1]
        BY <1>1, <1>4, <4>1 DEF SafetyInv, TypeOK
      <4>2. CASE n # c[1]
        BY <1>2, <1>3, <1>4, <3>1, <4>2 DEF SafetyInv, TypeOK, Paired
      <4>. QED BY <4>1, <4>2
    <3>2. ASSUME NEW d \in Ends, pipe'[d].state # "off"
          PROVE  pipe'[d].to = Other(d) /\ remote'[d] # "away" /\ remote'[Other(d)] # "away"
      BY <1>3, <1>4, <3>2, OtherEnd DEF SafetyInv, Paired
    <3>. QED BY <3>1, <3>2 DEF Paired
  <2>. QED BY <1>1, <1>4, <2>1, <2>2, FramesKept
<1>5. ASSUME NEW peer \in Found(c), pipe' = Start(c, peer), UNCHANGED pending,
             handler' = [handler EXCEPT ![c] = "forwarding"]
      PROVE  SafetyInv'
  <2>1. peer = pending[c[1]] /\ peer \in Ends
    BY <1>2, <1>5 DEF Found, SafetyInv, TypeOK
  <2>2. peer[1] = c[1] /\ remote[peer] # "away"
    BY <1>2, <1>5, <2>1 DEF Found, SafetyInv, Paired
  <2>3. peer = Other(c)
    BY <1>1, <2>1, <2>2, OtherEnd
  <2>. DEFINE p(d) == [Idle EXCEPT !.state = "recv", !.to = d]
  <2>4. p(peer) \in Pipe /\ p(c) \in Pipe
    BY <2>1, IdleType
  <2>5. /\ pipe' \in [Ends -> Pipe]
        /\ pipe'[c] = p(peer) /\ pipe'[peer] = p(c)
        /\ \A d \in Ends \ {c, peer} : pipe'[d] = pipe[d]
    <3>. HIDE DEF p
    <3>1. pipe' = [pipe EXCEPT ![c] = p(peer), ![peer] = p(c)]
      BY <1>5 DEF Start, p
    <3>2. c # peer
      BY <2>3, OtherEnd
    <3>. QED BY <2>1, <2>4, <3>1, <3>2 DEF SafetyInv, TypeOK
  <2>6. TypeOK'
    BY <1>1, <1>5, <2>5 DEF SafetyInv, TypeOK
  <2>7. pipe[c].state = "off" /\ pipe[peer].state = "off"
    <3>1. Other(peer) = c
      BY <2>3, OtherEnd
    <3>. QED BY <1>1, <2>1, <3>1 DEF SafetyInv, Paired
  <2>8. /\ pipe'[c].state = "recv" /\ pipe'[c].to = Other(c)
        /\ pipe'[peer].state = "recv" /\ pipe'[peer].to = Other(peer)
    <3>1. /\ p(peer).state = "recv" /\ p(peer).to = peer
          /\ p(c).state = "recv" /\ p(c).to = c
      BY <2>1, IdleType
    <3>2. Other(peer) = c
      BY <2>3, OtherEnd
    <3>. HIDE DEF p
    <3>. QED BY <2>3, <2>5, <3>1, <3>2
  <2>9. Paired'
    <3>1. ASSUME NEW n \in Names, pending'[n] # None
          PROVE  pending'[n][1] = n /\ remote'[pending'[n]] # "away"
      BY <1>3, <1>5, <3>1 DEF SafetyInv, TypeOK, Paired
    <3>2. ASSUME NEW d \in Ends, pipe'[d].state # "off"
          PROVE  pipe'[d].to = Other(d) /\ remote'[d] # "away" /\ remote'[Other(d)] # "away"
      <4>1. remote'[c] # "away" /\ remote'[peer] # "away"
        BY <1>1, <1>3, <2>1, <2>2 DEF SafetyInv, TypeOK
      <4>2. CASE d \in {c, peer}
        BY <2>3, <2>8, <4>1, <4>2, OtherEnd
      <4>3. CASE d \notin {c, peer}
        BY <1>3, <2>5, <3>2, <4>3, OtherEnd DEF SafetyInv, Paired
      <4>. QED BY <4>2, <4>3
    <3>. QED BY <3>1, <3>2 DEF Paired
  <2>10. \A d \in Ends : \/ pipe'[d] = pipe[d]
                         \/ pipe[d].state = "off" /\ pipe'[d].state = "recv"
    BY <2>5, <2>7, <2>8
  <2>. QED BY <1>1, <2>6, <2>9, <2>10, FramesKept
<1>. QED BY <1>4, <1>5 DEF Stream

(* The handlers' returns keep the invariant. *)
LEMMA HandlersSafe ==
  ASSUME SafetyInv, NEW c \in Ends, Handlers(c)
  PROVE  SafetyInv'
<1>1. CASE ForwardReturns(c)
  <2>1. pipe[c].to \in Ends
    <3>1. pipe[c].state # "off"
      BY <1>1 DEF ForwardReturns, ForwardDone, Finished
    <3>. QED BY <3>1, OtherEnd DEF SafetyInv, Paired
  <2>2. TypeOK'
    BY <1>1, <2>1 DEF ForwardReturns, SafetyInv, TypeOK
  <2>. QED BY <1>1, <2>2, EndsMove DEF ForwardReturns
<1>2. CASE WaiterReturns(c)
  <2>1. TypeOK'
    BY <1>2 DEF WaiterReturns, SafetyInv, TypeOK
  <2>. QED BY <1>2, <2>1, EndsMove DEF WaiterReturns
<1>. QED BY <1>1, <1>2 DEF Handlers

(* A pipe that receives a frame takes the next one. *)
LEMMA RecvFrameSafe ==
  ASSUME SafetyInv, NEW c \in Ends, RecvFrame(c)
  PROVE  SafetyInv'
<1>1. /\ pipe[c].state = "recv" /\ inbox[c] # <<>>
      /\ pipe' = [pipe EXCEPT ![c].state = "send", ![c].frame = Head(inbox[c])]
      /\ inbox' = [inbox EXCEPT ![c] = Tail(@)]
      /\ UNCHANGED <<remote, handler, pending, stopped, sent, out>>
  BY DEF RecvFrame
<1>2. /\ inbox[c] \in Seq(Frame) /\ Head(inbox[c]) \in Frame /\ Tail(inbox[c]) \in Seq(Frame)
      /\ Len(Tail(inbox[c])) = Len(inbox[c]) - 1 /\ Len(inbox[c]) \in Nat
      /\ Head(inbox[c]) = inbox[c][1] /\ Len(inbox[c]) >= 1
      /\ \A i \in 1..(Len(inbox[c]) - 1) : Tail(inbox[c])[i] = inbox[c][i + 1]
  BY <1>1 DEF SafetyInv, TypeOK
<1>3. /\ pipe' \in [Ends -> Pipe]
      /\ pipe'[c].state = "send" /\ pipe'[c].frame = Head(inbox[c])
      /\ pipe'[c].to = pipe[c].to
      /\ \A d \in Ends : d # c => pipe'[d] = pipe[d]
  BY <1>1, <1>2 DEF SafetyInv, TypeOK, Pipe
<1>4. TypeOK'
  BY <1>1, <1>2, <1>3 DEF SafetyInv, TypeOK
<1>5. Paired'
  BY <1>1, <1>3 DEF SafetyInv, Paired
<1>6. Faithful'
  BY <1>1 DEF SafetyInv, Faithful
<1>7. InOrder(c)'
  <2>1. PICK k \in Nat : k = Len(out[Other(c)])
    BY TakenType
  <2>2. Taken(c) = k /\ Taken(c)' = k + 1 /\ Len(out'[Other(c)]) = k
    BY <1>1, <1>3, <2>1 DEF Taken
  <2>3. /\ sent[c] = k + Len(inbox[c])
        /\ \A i \in 1..Len(inbox[c]) : inbox[c][i] = [from |-> c, number |-> k + i]
    BY <1>1, <2>2 DEF SafetyInv, InOrder, Finished
  <2>4. inbox'[c] = Tail(inbox[c])
    BY <1>1 DEF SafetyInv, TypeOK
  <2>5. sent'[c] = (k + 1) + Len(inbox'[c])
    <3>. DEFINE m == Len(inbox'[c])
    <3>1. inbox'[c] \in Seq(Frame) /\ m \in Nat
      BY <1>2, <2>4
    <3>2. Len(inbox[c]) = m + 1
      BY <1>2, <2>4, <3>1
    <3>3. sent'[c] = k + (m + 1)
      BY <1>1, <2>3, <3>2
    <3>. HIDE DEF m
    <3>4. k + (m + 1) = (k + 1) + m
      BY <3>1
    <3>. QED BY <3>3, <3>4 DEF m
  <2>6. ASSUME NEW i \in 1..Len(inbox'[c])
        PROVE  inbox'[c][i] = [from |-> c, number |-> (k + 1) + i]
    <3>1. i \in 1..(Len(inbox[c]) - 1) /\ i + 1 \in 1..Len(inbox[c])
      BY <1>2, <2>4
    <3>2. inbox'[c][i] = [from |-> c, number |-> k + (i + 1)]
      BY <1>2, <2>3, <2>4, <3>1
    <3>3. k + (i + 1) = (k + 1) + i
      BY <3>1
    <3>. QED BY <3>2, <3>3
  <2>7. pipe'[c].frame = [from |-> c, number |-> k + 1]
    <3>1. 1 \in 1..Len(inbox[c])
      BY <1>2
    <3>. QED BY <1>2, <1>3, <2>3, <3>1
  <2>. QED BY <2>2, <2>5, <2>6, <2>7 DEF InOrder
<1>8. ASSUME NEW d \in Ends, d # c
      PROVE  InOrder(d)'
  <2>1. inbox'[d] = inbox[d] /\ pipe'[d] = pipe[d]
    BY <1>1, <1>3, <1>8 DEF SafetyInv, TypeOK
  <2>2. InOrder(d) /\ Taken(d)' = Taken(d)
    BY <1>1, <2>1 DEF SafetyInv, Taken
  <2>. QED BY <1>1, <2>1, <2>2 DEF InOrder, Finished
<1>. QED BY <1>4, <1>5, <1>6, <1>7, <1>8 DEF SafetyInv

(* A pipe that sends gives the other end the next frame of this one. *)
LEMMA ForwardFrameSafe ==
  ASSUME SafetyInv, NEW c \in Ends, ForwardFrame(c)
  PROVE  SafetyInv'
<1>. DEFINE o == Other(c)
<1>1. o \in Ends /\ Other(o) = c /\ o # c
  BY OtherEnd
<1>2. pipe[c].state = "send" /\ pipe[c].to = o
  BY DEF ForwardFrame, SafetyInv, Paired
<1>3. /\ sent[c] = Taken(c) + Len(inbox[c])
      /\ \A i \in 1..Len(inbox[c]) : inbox[c][i] = [from |-> c, number |-> Taken(c) + i]
      /\ pipe[c].frame = [from |-> c, number |-> Len(out[o]) + 1]
  BY <1>2 DEF SafetyInv, InOrder, Finished
<1>4. Len(out[o]) \in Nat /\ Taken(c) = Len(out[o]) + 1
  BY <1>2, TakenType DEF Taken
<1>. HIDE DEF o
<1>5. /\ out' = [out EXCEPT ![o] = Append(@, pipe[c].frame)]
      /\ Finish(c, "recv")
      /\ UNCHANGED <<remote, handler, pending, stopped, inbox, sent>>
  BY <1>2 DEF ForwardFrame
<1>6. /\ pipe' \in [Ends -> Pipe]
      /\ pipe'[c].state = "recv" /\ pipe'[c].to = pipe[c].to
      /\ \A d \in Ends : d # c => pipe'[d] = pipe[d]
  BY <1>5, FinishResult DEF SafetyInv, TypeOK
<1>7. pipe[c].frame \in Frame
  <2>1. sent[c] \in 0..MaxFrames /\ Len(inbox[c]) \in Nat
    BY DEF SafetyInv, TypeOK
  <2>2. PICK k \in Nat, m \in Nat : k = Len(out[o]) /\ m = Len(inbox[c])
    BY <1>4, <2>1
  <2>3. sent[c] = (k + 1) + m
    BY <1>3, <1>4, <2>2
  <2>4. k + 1 \in 1..MaxFrames
    BY <2>1, <2>3, FramesAssumption
  <2>. QED BY <1>3, <2>2, <2>4 DEF Frame
<1>8. /\ out'[o] = Append(out[o], pipe[c].frame) /\ out[o] \in Seq(Frame)
      /\ Len(out'[o]) = Len(out[o]) + 1
      /\ \A d \in Ends : d # o => out'[d] = out[d]
  BY <1>1, <1>5, <1>7 DEF SafetyInv, TypeOK
<1>9. TypeOK'
  <2>1. Append(out[o], pipe[c].frame) \in Seq(Frame)
    BY <1>7, <1>8
  <2>2. out' \in [Ends -> Seq(Frame)]
    BY <1>5, <2>1 DEF SafetyInv, TypeOK
  <2>. QED BY <1>5, <1>6, <2>2 DEF SafetyInv, TypeOK
<1>10. Paired'
  BY <1>2, <1>5, <1>6 DEF SafetyInv, Paired
<1>11. Faithful'
  <2>1. out'[o] = [i \in 1..Len(out'[o]) |-> [from |-> c, number |-> i]]
    <3>1. out[o] = [i \in 1..Len(out[o]) |-> [from |-> c, number |-> i]]
      BY <1>1 DEF SafetyInv, Faithful
    <3>2. ASSUME NEW i \in 1..(Len(out[o]) + 1)
          PROVE  out'[o][i] = [from |-> c, number |-> i]
      <4>1. CASE i \in 1..Len(out[o])
        BY <1>4, <1>7, <1>8, <3>1, <4>1
      <4>2. CASE i = Len(out[o]) + 1
        BY <1>3, <1>4, <1>7, <1>8, <4>2
      <4>. QED BY <1>4, <4>1, <4>2
    <3>3. out'[o] \in Seq(Frame)
      BY <1>1, <1>9 DEF TypeOK
    <3>. QED BY <1>8, <3>2, <3>3
  <2>2. ASSUME NEW d \in Ends, d # o
        PROVE  out'[d] = [i \in 1..Len(out'[d]) |-> [from |-> Other(d), number |-> i]]
    BY <1>8, <2>2 DEF SafetyInv, Faithful
  <2>. QED BY <1>1, <2>1, <2>2 DEF Faithful
<1>12. InOrder(c)'
  <2>1. Taken(c)' = Taken(c)
    BY <1>4, <1>6, <1>8 DEF Taken, o
  <2>. QED BY <1>3, <1>5, <1>6, <2>1 DEF InOrder
<1>13. ASSUME NEW d \in Ends, d # c
       PROVE  InOrder(d)'
  <2>1. Other(d) \in Ends /\ Other(d) # o
    BY <1>1, <1>13, OtherEnd
  <2>2. out'[Other(d)] = out[Other(d)] /\ pipe'[d] = pipe[d]
    BY <1>6, <1>8, <1>13, <2>1
  <2>. QED BY <1>5, <2>2 DEF SafetyInv, InOrder, Finished, Taken
<1>. QED BY <1>9, <1>10, <1>11, <1>12, <1>13 DEF SafetyInv

(* A pipe that ends, and the other steps of pipes, keep the invariant. *)
LEMMA PipesSafe ==
  ASSUME SafetyInv, NEW c \in Ends, Pipes(c)
  PROVE  SafetyInv'
<1>1. CASE RecvEOF(c) \/ RecvError(c) \/ SendError(c)
  <2>1. PICK result \in {"nil", "err"} : Finish(c, result)
    BY <1>1 DEF RecvEOF, RecvError, SendError
  <2>2. /\ pipe[c].state # "off"
        /\ UNCHANGED <<remote, handler, pending, stopped, inbox, sent, out>>
    BY <1>1 DEF RecvEOF, RecvError, SendError
  <2>3. /\ pipe' \in [Ends -> Pipe]
        /\ pipe'[c].state = result /\ pipe'[c].to = pipe[c].to
        /\ \A d \in Ends : d # c => pipe'[d] = pipe[d]
    BY <2>1, FinishResult DEF SafetyInv, TypeOK
  <2>4. TypeOK'
    BY <2>2, <2>3 DEF SafetyInv, TypeOK
  <2>5. Paired'
    BY <2>2, <2>3 DEF SafetyInv, Paired
  <2>. QED BY <2>2, <2>3, <2>4, <2>5, FramesKept
<1>. QED BY <1>1, RecvFrameSafe, ForwardFrameSafe DEF Pipes

(* Every step keeps the invariant. *)
LEMMA SafetyNext == SafetyInv /\ [Next]_vars => SafetyInv'
<1>. SUFFICES ASSUME SafetyInv, [Next]_vars PROVE SafetyInv'
  OBVIOUS
<1>1. CASE UNCHANGED vars
  BY <1>1 DEF vars, SafetyInv, TypeOK, Paired, InOrder, Finished, Taken, Faithful
<1>. QED BY <1>1, RemoteSafe, StreamSafe, PipesSafe, HandlersSafe DEF Next

(* The initial state satisfies it. *)
LEMMA SafetyInit == Init => SafetyInv
<1>. SUFFICES ASSUME Init PROVE SafetyInv
  OBVIOUS
<1>1. TypeOK
  <2>1. 0 \in 0..MaxFrames
    BY FramesAssumption
  <2>2. inbox \in [Ends -> Seq(Frame)] /\ out \in [Ends -> Seq(Frame)]
    BY DEF Init
  <2>3. pipe \in [Ends -> Pipe] /\ sent \in [Ends -> 0..MaxFrames]
    BY <2>1, IdleType DEF Init
  <2>. QED BY <2>2, <2>3 DEF Init, TypeOK
<1>2. Paired
  BY IdleType DEF Init, Paired
<1>3. ASSUME NEW c \in Ends
      PROVE  InOrder(c) /\ out[c] = [i \in 1..Len(out[c]) |-> [from |-> Other(c), number |-> i]]
  <2>1. /\ out[c] = <<>> /\ out[Other(c)] = <<>> /\ inbox[c] = <<>> /\ sent[c] = 0
        /\ pipe[c].state = "off"
    BY IdleType, OtherEnd DEF Init
  <2>2. Len(<<>>) = 0
    OBVIOUS
  <2>. QED BY <2>1, <2>2 DEF InOrder, Taken
<1>. QED BY <1>1, <1>2, <1>3 DEF SafetyInv, Faithful

(* Types, pairing and order hold in every reachable state. *)
LEMMA SafetyAlways == Spec => []SafetyInv
BY SafetyInit, SafetyNext, PTL DEF Spec

(* In every reachable state what an end has received is what the other end *)
(* of its stream has sent, from the first frame on, in order, nothing      *)
(* twice and nothing left out, for any number of streams (Stream, Forward  *)
(* and pipe of the router).                                                *)
THEOREM AlwaysFaithful == Spec => []Faithful
<1>1. SafetyInv => Faithful
  BY DEF SafetyInv
<1>. QED BY <1>1, SafetyAlways, PTL
=============================================================================
