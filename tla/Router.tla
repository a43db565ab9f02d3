------------------------------- MODULE Router -------------------------------
(***************************************************************************)
(* The router (internal/service/router_service.go, router_support.go): two *)
(* gRPC streams that present tokens of one stream name are joined, and two *)
(* goroutines copy what arrives on the one to the other.                   *)
(*                                                                         *)
(* A Dial hands its token to one client and, through Listen, to one        *)
(* exporter, so a stream name has two ends.  Each connects at most once.   *)
(* The handler of the end that comes second owns the two pipes; the other  *)
(* waits for its context.                                                  *)
(*                                                                         *)
(* A definition whose comment starts with "Mistake:" is a wrong version of *)
(* the definition after it; nothing uses it.                               *)
(***************************************************************************)
EXTENDS Naturals, Sequences

CONSTANTS
  None,
  Names,       \* stream names, the subjects of the tokens
  MaxFrames    \* frames an end sends

ASSUME NoneNotAnEnd == None \notin Names \X {"client", "exporter"}
ASSUME FramesAssumption == MaxFrames \in Nat

VARIABLES
  remote,   \* per end: "away", "open", "closed" (CloseSend) or "broken"
  handler,  \* per end: the Stream handler
  pending,  \* RouterService.pending: the end that came first
  stopped,  \* ends whose handler's context the other handler has cancelled
  inbox,    \* per end: frames that have arrived and were not received yet
  sent,     \* per end: number of frames it has sent
  out,      \* per end: frames the router has sent to it
  pipe      \* per source end: the goroutine that copies from it

vars == <<remote, handler, pending, stopped, inbox, sent, out, pipe>>

Ends == Names \X {"client", "exporter"}

(* A frame is known by the end it came from and its number. *)
Frame == [from : Ends, number : 1..MaxFrames]

Idle == [state |-> "off", frame |-> None, to |-> None]

Pipe == [state : {"off", "recv", "send", "nil", "err"},
         frame : Frame \cup {None}, to : Ends \cup {None}]

-----------------------------------------------------------------------------
(* The two ends of a stream *)

SendFrame(c) ==
  /\ remote[c] = "open"
  /\ sent[c] < MaxFrames
  /\ sent' = [sent EXCEPT ![c] = @ + 1]
  /\ inbox' = [inbox EXCEPT ![c] = Append(@, [from |-> c, number |-> sent[c] + 1])]
  /\ UNCHANGED <<remote, handler, pending, stopped, out, pipe>>

CloseSend(c) ==
  /\ remote[c] = "open"
  /\ remote' = [remote EXCEPT ![c] = "closed"]
  /\ UNCHANGED <<handler, pending, stopped, inbox, sent, out, pipe>>

(* The end goes away: its connection is lost or it cancels its call. *)
Break(c) ==
  /\ remote[c] \in {"open", "closed"}
  /\ remote' = [remote EXCEPT ![c] = "broken"]
  /\ UNCHANGED <<handler, pending, stopped, inbox, sent, out, pipe>>

-----------------------------------------------------------------------------
(* RouterService.Stream *)

Start(c, peer) == [pipe EXCEPT ![c] = [Idle EXCEPT !.state = "recv", !.to = peer],
                               ![peer] = [Idle EXCEPT !.state = "recv", !.to = c]]

(* LoadOrStore finds the end that came first. *)
Found(c) == {pending[c[1]]} \ {None}

(* The end connects with a valid token of its stream. *)
Stream(c) ==
  /\ remote[c] = "away"
  /\ remote' = [remote EXCEPT ![c] = "open"]
  /\ \/ /\ Found(c) = {}
        /\ pending' = [pending EXCEPT ![c[1]] = c]
        /\ handler' = [handler EXCEPT ![c] = "waiting"]
        /\ UNCHANGED pipe
     \/ \E peer \in Found(c) :
          /\ handler' = [handler EXCEPT ![c] = "forwarding"]
          /\ pipe' = Start(c, peer)
          /\ UNCHANGED pending
  /\ UNCHANGED <<stopped, inbox, sent, out>>

(* The stream is unusable: its end is gone or its handler has returned. *)
Dead(c) == remote[c] = "broken" \/ handler[c] = "returned"

Finish(c, result) == pipe' = [pipe EXCEPT ![c].state = result, ![c].frame = None]

(* Mistake: the frame is not taken out of what has arrived. *)
RecvFrameAgain(c) ==
  /\ pipe[c].state = "recv"
  /\ handler[c] # "returned"
  /\ inbox[c] # <<>>
  /\ Len(out[pipe[c].to]) < 2 * MaxFrames
  /\ pipe' = [pipe EXCEPT ![c].state = "send", ![c].frame = Head(inbox[c])]
  /\ UNCHANGED <<remote, handler, pending, stopped, inbox, sent, out>>

(* pipe: a.Recv returns a frame.  What had arrived before the end broke    *)
(* may still be received.                                                  *)
RecvFrame(c) ==
  /\ pipe[c].state = "recv"
  /\ handler[c] # "returned"
  /\ inbox[c] # <<>>
  /\ pipe' = [pipe EXCEPT ![c].state = "send", ![c].frame = Head(inbox[c])]
  /\ inbox' = [inbox EXCEPT ![c] = Tail(@)]
  /\ UNCHANGED <<remote, handler, pending, stopped, sent, out>>

(* pipe: a.Recv returns io.EOF, and the pipe no error. *)
RecvEOF(c) ==
  /\ pipe[c].state = "recv"
  /\ remote[c] = "closed" /\ handler[c] # "returned"
  /\ inbox[c] = <<>>
  /\ Finish(c, "nil")
  /\ UNCHANGED <<remote, handler, pending, stopped, inbox, sent, out>>

(* Mistake: an error of Recv is not looked at, the loop goes on. *)
RecvErrorIgnored(c) ==
  /\ pipe[c].state = "recv"
  /\ Dead(c)
  /\ UNCHANGED vars

(* pipe: a.Recv fails. *)
RecvError(c) ==
  /\ pipe[c].state = "recv"
  /\ Dead(c)
  /\ Finish(c, "err")
  /\ UNCHANGED <<remote, handler, pending, stopped, inbox, sent, out>>

(* pipe: b.Send succeeds. *)
ForwardFrame(c) ==
  /\ pipe[c].state = "send"
  /\ ~Dead(pipe[c].to)
  /\ out' = [out EXCEPT ![pipe[c].to] = Append(@, pipe[c].frame)]
  /\ Finish(c, "recv")
  /\ UNCHANGED <<remote, handler, pending, stopped, inbox, sent>>

(* pipe: b.Send fails. *)
SendError(c) ==
  /\ pipe[c].state = "send"
  /\ Dead(pipe[c].to)
  /\ Finish(c, "err")
  /\ UNCHANGED <<remote, handler, pending, stopped, inbox, sent, out>>

Finished(c) == pipe[c].state \in {"nil", "err"}

(* Mistake: Forward returns with the first error. *)
ForwardDoneFirst(c) == Finished(c) \/ Finished(pipe[c].to)

(* Forward has passed g.Wait: both pipes have returned. *)
ForwardDone(c) == Finished(c) /\ Finished(pipe[c].to)

(* Forward returns; the deferred calls cancel both contexts. *)
ForwardReturns(c) ==
  /\ handler[c] = "forwarding"
  /\ ForwardDone(c)
  /\ handler' = [handler EXCEPT ![c] = "returned"]
  /\ stopped' = stopped \cup {pipe[c].to}
  /\ UNCHANGED <<remote, pending, inbox, sent, out, pipe>>

(* Mistake: the cancellation by the other handler is not waited for. *)
WaiterStoppedAlone(c) == remote[c] = "broken"

(* <-ctx.Done() of the handler that came first *)
WaiterStopped(c) == remote[c] = "broken" \/ c \in stopped

WaiterReturns(c) ==
  /\ handler[c] = "waiting"
  /\ WaiterStopped(c)
  /\ handler' = [handler EXCEPT ![c] = "returned"]
  /\ UNCHANGED <<remote, pending, stopped, inbox, sent, out, pipe>>

-----------------------------------------------------------------------------
Init ==
  /\ remote = [c \in Ends |-> "away"]
  /\ handler = [c \in Ends |-> "none"]
  /\ pending = [n \in Names |-> None]
  /\ stopped = {}
  /\ inbox = [c \in Ends |-> <<>>]
  /\ sent = [c \in Ends |-> 0]
  /\ out = [c \in Ends |-> <<>>]
  /\ pipe = [c \in Ends |-> Idle]

Pipes(c) ==
  \/ RecvFrame(c) \/ RecvEOF(c) \/ RecvError(c) \/ ForwardFrame(c) \/ SendError(c)

Handlers(c) == ForwardReturns(c) \/ WaiterReturns(c)

Next ==
  \E c \in Ends :
    \/ Stream(c) \/ SendFrame(c) \/ CloseSend(c) \/ Break(c)
    \/ Pipes(c) \/ Handlers(c)

Spec == Init /\ [][Next]_vars

(* Goroutines are scheduled; nothing is assumed of the two ends. *)
Fairness == \A c \in Ends : WF_vars(Pipes(c)) /\ WF_vars(Handlers(c))

FairSpec == Spec /\ Fairness

(* Pipes, handlers and frames are well formed: a pipe that is done has     *)
(* returned an error or none (pipe in router_support.go).                  *)
TypeOK ==
  /\ remote \in [Ends -> {"away", "open", "closed", "broken"}]
  /\ handler \in [Ends -> {"none", "waiting", "forwarding", "returned"}]
  /\ pending \in [Names -> Ends \cup {None}]
  /\ stopped \subseteq Ends
  /\ inbox \in [Ends -> Seq(Frame)]
  /\ sent \in [Ends -> 0..MaxFrames]
  /\ out \in [Ends -> Seq(Frame)]
  /\ pipe \in [Ends -> Pipe]

-----------------------------------------------------------------------------
Other(c) == <<c[1], IF c[2] = "client" THEN "exporter" ELSE "client">>

(* What an end receives is what the other end of its stream has sent, in   *)
(* order, nothing twice and nothing left out (pipe, and the pairing by     *)
(* LoadOrStore on the stream name).                                        *)
Faithful ==
  \A c \in Ends :
    out[c] = [i \in 1..Len(out[c]) |-> [from |-> Other(c), number |-> i]]

Joined(n) == \A c \in {n} \X {"client", "exporter"} : remote[c] # "away"

(* A frame sent before CloseSend, by an end whose peer has connected, gets *)
(* to the peer unless one of the two goes away: an end that has finished   *)
(* sending does not stop what is still on its way.                         *)
FramesArrive ==
  \A c \in Ends : \A i \in 1..MaxFrames :
    (sent[c] >= i /\ Joined(c[1])) ~>
      (Len(out[Other(c)]) >= i \/ remote[c] = "broken" \/ remote[Other(c)] = "broken")

(* Once both ends are gone, both handlers return: no goroutine is left     *)
(* behind in Forward or in the wait for the other side.                    *)
HandlersReturn ==
  \A c \in Ends :
    (remote[c] = "broken" /\ remote[Other(c)] \in {"away", "broken"}) ~>
      (handler[c] = "returned" \/ remote[Other(c)] \notin {"away", "broken"})

(* Both ends have finished sending: both calls end without either of them  *)
(* having to break.                                                        *)
FinishedStreamsEnd ==
  \A c \in Ends :
    (remote[c] = "closed" /\ remote[Other(c)] = "closed") ~> handler[c] = "returned"

-----------------------------------------------------------------------------
(* The inductive invariant behind Faithful *)

(* The end that came first has connected, and a pipe leads from one end of *)
(* a stream to the other once both have.                                   *)
Paired ==
  /\ \A n \in Names : pending[n] # None => pending[n][1] = n /\ remote[pending[n]] # "away"
  /\ \A c \in Ends : pipe[c].state # "off" =>
       pipe[c].to = Other(c) /\ remote[c] # "away" /\ remote[Other(c)] # "away"

(* Frames of c that the router has received. *)
Taken(c) == IF pipe[c].state = "send" THEN Len(out[Other(c)]) + 1 ELSE Len(out[Other(c)])

(* Until its pipe is done, the frames of c are with the other end, in the  *)
(* hand of the pipe and on their way to it, in this order and without gap. *)
InOrder(c) ==
  ~Finished(c) =>
    /\ sent[c] = Taken(c) + Len(inbox[c])
    /\ \A i \in 1..Len(inbox[c]) : inbox[c][i] = [from |-> c, number |-> Taken(c) + i]
    /\ pipe[c].state = "send" =>
         pipe[c].frame = [from |-> c, number |-> Len(out[Other(c)]) + 1]

SafetyInv == TypeOK /\ Paired /\ (\A c \in Ends : InOrder(c)) /\ Faithful
=============================================================================
