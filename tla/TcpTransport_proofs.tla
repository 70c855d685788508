------------------------- MODULE TcpTransport_proofs -------------------------
(***************************************************************************)
(* Proofs about TcpTransport, for any number of sending threads, buffers   *)
(* and packets: the user is told of the end once and nothing is written    *)
(* after it, stop waits for the operations it has counted, a pending read  *)
(* is with one actor at a time, and, while pushes do not overlap, what is  *)
(* pending is accounted for and the chance to send is with one actor.      *)
(***************************************************************************)
EXTENDS TcpTransport, TLAPS, FiniteSetTheorems, SequenceTheorems

-----------------------------------------------------------------------------
(* The end of a transport.                                                 *)

\* stop has won the compare-and-swap from started.
StopWon == {"stop_wait", "force_wait", "stop_close", "force_close", "done", "force_done"}
StopLabels == {"idle", "stop", "force_stop", "not_started", "returned"} \cup StopWon

\* The variables that take part.
EndTypes ==
    /\ state \in States
    /\ pc \in [Threads -> SendLabels]
    /\ startpc \in {"idle", "installing", "done"}
    /\ stoppc \in StopLabels

\* start is over before the state is started, and is done once.
StartOrder ==
    /\ startpc = "idle" <=> state = "none"
    /\ startpc = "installing" <=> state = "starting"

\* A poller that is about to make the final callback has moved the state to
\* its end, which nobody leaves, and it is the only one.
FinalIsOwned ==
    /\ rpc = "disconnected_cb" =>
           state = "disconnected" /\ ended = <<>> /\ pc[SendPoller] # "disconnected_cb"
    /\ pc[SendPoller] = "disconnected_cb" => state = "disconnected" /\ ended = <<>>
    /\ pc[SendPoller] = "stopped_cb" => state = "stopped" /\ ended = <<>>

\* After it the socket is closed.
EndIsFinal ==
    \/ ended = <<>>
    \/ ended = <<"stopped_cb">> /\ state = "stopped" /\ shut = "rdwr"
       /\ pc[SendPoller] # "stopped_cb"
    \/ ended = <<"disconnected_cb">> /\ state = "disconnected" /\ shut = "rdwr"
       /\ pc[SendPoller] # "disconnected_cb" /\ rpc # "disconnected_cb"

StopIsKept == stoppc \in StopWon => state \in {"stopping", "stopped"}

EndInv == EndTypes /\ StartOrder /\ FinalIsOwned /\ EndIsFinal /\ StopIsKept

LEMMA InitEndInv == Init => EndInv
<1> SUFFICES ASSUME Init PROVE EndInv
  OBVIOUS
<1>1. /\ state = "none" /\ startpc = "idle" /\ stoppc = "idle" /\ rpc = "idle"
      /\ ended = <<>> /\ pc = [t \in Threads |-> "idle"]
  BY DEF Init
<1>2. pc \in [Threads -> SendLabels] /\ pc[SendPoller] = "idle"
  BY <1>1 DEF Threads, SendLabels
<1>3. state \in States /\ stoppc \in StopLabels /\ stoppc \notin StopWon
  BY <1>1 DEF States, StopLabels, StopWon
<1>4. EndTypes
  BY <1>1, <1>2, <1>3 DEF EndTypes
<1>5. StartOrder
  BY <1>1 DEF StartOrder
<1>6. FinalIsOwned
  BY <1>1, <1>2 DEF FinalIsOwned
<1>7. EndIsFinal
  BY <1>1 DEF EndIsFinal
<1>8. StopIsKept
  BY <1>3 DEF StopIsKept
<1> QED BY <1>4, <1>5, <1>6, <1>7, <1>8 DEF EndInv

\* A step in which only the control of a thread changes, and not to a
\* callback, keeps the invariant.
LEMMA EndFrame ==
    ASSUME EndInv, NEW t \in Threads, NEW l \in SendLabels,
           l \notin {"disconnected_cb", "stopped_cb"}, Goto(t, l),
           UNCHANGED <<state, startpc, stoppc, rpc, ended, shut>>
    PROVE  EndInv'
<1>1. pc' \in [Threads -> SendLabels] /\ SendPoller \in Threads
  BY DEF EndInv, EndTypes, Goto, Threads
<1>2. pc'[SendPoller] = pc[SendPoller]
      \/ pc'[SendPoller] \notin {"disconnected_cb", "stopped_cb"}
  BY DEF EndInv, EndTypes, Goto, Threads
<1> QED
  BY <1>1, <1>2 DEF EndInv, EndTypes, StartOrder, FinalIsOwned, EndIsFinal, StopIsKept

\* So does one in which none of it changes.
LEMMA EndStutter ==
    ASSUME EndInv, UNCHANGED <<state, startpc, stoppc, rpc, ended, shut, pc>>
    PROVE  EndInv'
  BY DEF EndInv, EndTypes, StartOrder, FinalIsOwned, EndIsFinal, StopIsKept

LEMMA EndStartStop ==
    ASSUME EndInv, Start \/ StartDone \/ Stopping
    PROVE  EndInv'
<1> USE DEF EndInv, EndTypes, StartOrder, FinalIsOwned, EndIsFinal, StopIsKept,
            States, StopLabels, StopWon, CasState, CasStateFails,
            localVars, readVars, ioVars
<1>1. CASE Start
  BY <1>1 DEF Start
<1>2. CASE StartDone
  BY <1>2 DEF StartDone
<1>3. CASE \E kind \in StopKinds : Stop(kind)
  BY <1>3, TransportAssumption DEF Stop
<1>4. CASE StopCas
  BY <1>4 DEF StopCas
<1>5. CASE StopWait
  BY <1>5 DEF StopWait, StopWaitEnds
<1>6. CASE StopClose
  BY <1>6 DEF StopClose, ShutdownRdwr, ShutdownRd
<1>7. CASE StopDisconnecting
  BY <1>7 DEF StopDisconnecting
<1> QED BY <1>1, <1>2, <1>3, <1>4, <1>5, <1>6, <1>7 DEF Stopping

-----------------------------------------------------------------------------
(* Steps in which a thread only goes on.                                   *)

\* send is not counted in pending_opt_cnt_ here.
Uncalled == {"idle", "enter"}
\* send has not found the transport started here, or is over.
Harmless == {"idle", "enter", "check", "leave"}
Callbacks == {"disconnected_cb", "stopped_cb"}

\* Thread t moves to a label that is no callback, without entering or leaving
\* the operations that are counted.
Stays == UNCHANGED <<state, startpc, stoppc, rpc, ended, shut, opt, readpc, rtrk, rstate>>
Quiet(t) ==
    /\ Stays
    /\ \E l \in SendLabels \ Callbacks :
        /\ Goto(t, l)
        /\ t \in Senders => /\ pc[t] \in Uncalled <=> l \in Uncalled
                            /\ (state # "started" /\ pc[t] \in Harmless) => l \in Harmless

LEMMA QuietBy ==
    ASSUME NEW t, NEW l \in SendLabels \ Callbacks, Stays, Goto(t, l),
           pc[t] \in Uncalled <=> l \in Uncalled,
           (state # "started" /\ pc[t] \in Harmless) => l \in Harmless
    PROVE  Quiet(t)
  BY DEF Quiet

LEMMA SendIsQuiet ==
    ASSUME NEW s \in Senders,
           \/ \E n \in Sizes : SendCall(s, n)
           \/ SendCheck(s) \/ SendClaim(s) \/ SendFill(s) \/ SendReadSize(s) \/ SendAdd(s)
    PROVE  Quiet(s)
<1> USE DEF Quiet, Stays, Goto, SendLabels, Uncalled, Harmless, Callbacks, ioVars, readVars, sendVars
<1>1. ASSUME NEW n \in Sizes, SendCall(s, n) PROVE Quiet(s)
  BY <1>1 DEF SendCall
<1>2. CASE SendCheck(s)
  <2> DEFINE l == IF state = "started" THEN "claim" ELSE "leave"
  <2>1. pc[s] = "check" /\ Goto(s, l) /\ Stays
    BY <1>2 DEF SendCheck, Stays
  <2> QED BY <2>1, QuietBy
<1>3. CASE SendClaim(s)
  <2>1. pc[s] = "claim" /\ Goto(s, "fill") /\ Stays
    BY <1>3 DEF SendClaim, Stays
  <2> QED BY <2>1, QuietBy
<1>4. CASE SendFill(s)
  <2>1. pc[s] = "fill" /\ Goto(s, "size") /\ Stays
    BY <1>4 DEF SendFill, Stays
  <2> QED BY <2>1, QuietBy
<1>5. CASE SendReadSize(s)
  <2>1. pc[s] = "size" /\ Goto(s, "add") /\ Stays
    BY <1>5 DEF SendReadSize, Stays
  <2> QED BY <2>1, QuietBy
<1>6. CASE SendAdd(s)
  BY <1>6 DEF SendAdd
<1> QED BY <1>1, <1>2, <1>3, <1>4, <1>5, <1>6

LEMMA SendOnceIsQuiet ==
    ASSUME NEW t \in Threads, SendOnce(t)
    PROVE  Quiet(t)
<1> USE DEF Quiet, Stays, Goto, SendLabels, Uncalled, Harmless, Callbacks, ioVars, readVars,
            sendVars, Finish
<1>1. CASE PopLast(t)
  BY <1>1 DEF PopLast
<1>2. CASE WantToSend(t)
  BY <1>2 DEF WantToSend
<1>3. CASE NetSend(t)
  BY <1>3 DEF NetSend
<1>4. CASE NetSendNothing(t)
  BY <1>4 DEF NetSendNothing
<1>5. CASE PendSub(t)
  <2> DEFINE l == IF pc[t] = "sub" THEN "cmp" ELSE "recmp"
  <2>1. pc[t] \in {"sub", "resub"} /\ Goto(t, l) /\ Stays
    BY <1>5 DEF PendSub, Stays
  <2> QED BY <2>1, QuietBy
<1>6. CASE PendCompare(t)
  BY <1>6 DEF PendCompare, SendMoreIf
<1>7. CASE StartSendTracker(t)
  BY <1>7 DEF StartSendTracker
<1> QED BY <1>1, <1>2, <1>3, <1>4, <1>5, <1>6, <1>7 DEF SendOnce

LEMMA PollIsQuiet ==
    ASSUME SendEvent \/ ChannelEvent
    PROVE  Quiet(SendPoller)
  BY TransportAssumption DEF SendEvent, ChannelEvent, Quiet, Stays, Goto, SendLabels, Uncalled,
     Harmless, Callbacks, readVars

LEMMA EndQuiet ==
    ASSUME EndInv, NEW t \in Threads, Quiet(t)
    PROVE  EndInv'
<1>1. PICK l \in SendLabels \ Callbacks : Goto(t, l)
  BY DEF Quiet
<1>2. UNCHANGED <<state, startpc, stoppc, rpc, ended, shut>>
  BY DEF Quiet, Stays
<1> QED BY <1>1, <1>2, EndFrame DEF Callbacks

-----------------------------------------------------------------------------
(* The other steps of the senders and of the pollers, and the end.         *)

LEMMA EndSenders ==
    ASSUME EndInv, NEW s \in Senders, SendEnter(s) \/ SendLeave(s) \/ SenderFails(s)
    PROVE  EndInv'
<1>0. s \in Threads /\ SendPoller \in Threads /\ s # SendPoller
  BY TransportAssumption DEF Threads
<1>1. CASE SendEnter(s)
  <2>1. Goto(s, "check") /\ UNCHANGED <<state, startpc, stoppc, rpc, ended, shut>>
    BY <1>1 DEF SendEnter, ioVars, readVars
  <2> QED BY <1>0, <2>1, EndFrame DEF SendLabels
<1>2. CASE SendLeave(s)
  <2>1. Goto(s, "idle") /\ UNCHANGED <<state, startpc, stoppc, rpc, ended, shut>>
    BY <1>2 DEF SendLeave, ioVars, readVars
  <2> QED BY <1>0, <2>1, EndFrame DEF SendLabels
<1>3. CASE SenderFails(s)
  <2>1. /\ pc' \in [Threads -> SendLabels] /\ pc'[SendPoller] = pc[SendPoller]
        /\ state' = state \/ (state = "started" /\ state' = "disconnecting")
        /\ UNCHANGED <<startpc, stoppc, rpc, ended, shut>>
    BY <1>0, <1>3 DEF SenderFails, Goto, CasState, CasStateFails, EndInv, EndTypes,
                      SendLabels, readVars
  <2> QED
    BY <2>1 DEF EndInv, EndTypes, StartOrder, FinalIsOwned, EndIsFinal, StopIsKept, States
<1> QED BY <1>1, <1>2, <1>3

LEMMA EndSendPolling ==
    ASSUME EndInv, SendPolling
    PROVE  EndInv'
<1>0. SendPoller \in Threads
  BY DEF Threads
<1>1. CASE SendEvent \/ ChannelEvent
  BY <1>0, <1>1, PollIsQuiet, EndQuiet
<1> USE DEF EndInv, EndTypes, StartOrder, FinalIsOwned, EndIsFinal, StopIsKept,
            CasState, CasStateFails, Goto
<1>2. CASE SendFails
  BY <1>0, <1>2 DEF SendFails, SendLabels, States, ioVars, readVars
<1>3. CASE TriggerDisconnected
  <2>1. CASE CasState("disconnecting", "disconnected") /\ Goto(SendPoller, "disconnected_cb")
    BY <1>0, <1>3, <2>1 DEF TriggerDisconnected, SendLabels, States, ioVars, readVars
  <2>2. CASE CasStateFails("disconnecting") /\ Goto(SendPoller, "end")
    BY <1>0, <1>3, <2>2 DEF TriggerDisconnected, SendLabels, ioVars, readVars
  <2> QED BY <1>3, <2>1, <2>2 DEF TriggerDisconnected
<1>4. CASE TriggerStopped
  <2>1. CASE CasState("stopping", "stopped") /\ Goto(SendPoller, "stopped_cb")
    BY <1>0, <1>4, <2>1 DEF TriggerStopped, SendLabels, States, ioVars, readVars
  <2>2. CASE CasStateFails("stopping") /\ Goto(SendPoller, "idle")
    BY <1>0, <1>4, <2>2 DEF TriggerStopped, SendLabels, ioVars, readVars
  <2> QED BY <1>4, <2>1, <2>2 DEF TriggerStopped
<1>5. CASE FinalCallback
  <2>1. pc' \in [Threads -> SendLabels] /\ pc'[SendPoller] = "idle" /\ shut' = "rdwr"
    BY <1>0, <1>5 DEF FinalCallback, ShutdownRdwr, SendLabels
  <2>4. ended = <<>> /\ ended' = Append(ended, pc[SendPoller])
    BY <1>5 DEF FinalCallback
  <2>5. ended' = <<pc[SendPoller]>>
    BY <2>4
  <2>2. UNCHANGED <<state, startpc, stoppc, rpc>>
    BY <1>5 DEF FinalCallback, readVars
  <2>3. pc[SendPoller] \in {"disconnected_cb", "stopped_cb"}
    BY <1>5 DEF FinalCallback
  <2> QED BY <2>1, <2>2, <2>3, <2>4, <2>5
<1> QED BY <1>1, <1>2, <1>3, <1>4, <1>5 DEF SendPolling

\* async_read and the read poller.
LEMMA EndReading ==
    ASSUME EndInv, Reading
    PROVE  EndInv'
<1>1. CASE AsyncRead \/ AsyncReadEnter \/ AsyncReadCheck \/ AsyncReadChange
           \/ AsyncReadTrack \/ AsyncReadLeave
  <2>1. UNCHANGED <<state, startpc, stoppc, rpc, ended, shut, pc>>
    BY <1>1 DEF AsyncRead, AsyncReadEnter, AsyncReadCheck, AsyncReadChange, AsyncReadTrack,
                AsyncReadLeave, ioVars, readLocal
  <2> QED BY <2>1, EndStutter
<1>2. CASE ReadEvent \/ ReadWait \/ Read \/ ReadAgain \/ ReadCallback
  <2>1. UNCHANGED <<state, startpc, stoppc, ended, shut, pc>> /\ rpc' # "disconnected_cb"
    BY <1>2 DEF ReadEvent, ReadWait, Read, ReadAgain, ReadCallback, ioVars, readLocal
  <2> QED
    BY <2>1 DEF EndInv, EndTypes, StartOrder, FinalIsOwned, EndIsFinal, StopIsKept
<1>3. CASE ReadFails
  <2>1. UNCHANGED <<startpc, stoppc, ended, shut, pc>>
    BY <1>3 DEF ReadFails, ioVars, readLocal
  <2>2. \/ state' = state /\ rpc' # "disconnected_cb"
        \/ state = "started" /\ state' = "disconnecting" /\ rpc' # "disconnected_cb"
        \/ state = "disconnecting" /\ state' = "disconnected"
    BY <1>3 DEF ReadFails, CasState, CasStateFails
  <2> QED
    BY <2>1, <2>2 DEF EndInv, EndTypes, StartOrder, FinalIsOwned, EndIsFinal, StopIsKept,
                      States
<1>4. CASE ReadFinalCallback
  <2>1. UNCHANGED <<state, startpc, stoppc, pc>> /\ shut' = "rdwr" /\ rpc' = "idle"
    BY <1>4 DEF ReadFinalCallback, ShutdownRdwr, readLocal
  <2>2. ended' = Append(ended, rpc) /\ rpc = "disconnected_cb"
    BY <1>4 DEF ReadFinalCallback
  <2>3. ended = <<>> /\ state = "disconnected" /\ pc[SendPoller] # "disconnected_cb"
    BY <2>2 DEF EndInv, FinalIsOwned
  <2>4. ended' = <<"disconnected_cb">>
    BY <2>2, <2>3
  <2> QED
    BY <2>1, <2>2, <2>3, <2>4
       DEF EndInv, EndTypes, StartOrder, FinalIsOwned, EndIsFinal, StopIsKept
<1> QED BY <1>1, <1>2, <1>3, <1>4 DEF Reading

LEMMA NextEndInv == EndInv /\ [Next]_vars => EndInv'
<1> SUFFICES ASSUME EndInv, [Next]_vars PROVE EndInv'
  OBVIOUS
<1>1. CASE Start \/ StartDone \/ Stopping
  BY <1>1, EndStartStop
<1>2. ASSUME NEW s \in Senders, Send(s) PROVE EndInv'
  <2>1. s \in Threads
    BY DEF Threads
  <2>2. CASE SendEnter(s) \/ SendLeave(s) \/ SenderFails(s)
    BY <2>2, EndSenders
  <2>3. CASE ~(SendEnter(s) \/ SendLeave(s) \/ SenderFails(s))
    BY <1>2, <2>1, <2>3, SendIsQuiet, EndQuiet DEF Send
  <2> QED BY <2>2, <2>3
<1>3. ASSUME NEW t \in Threads, SendOnce(t) PROVE EndInv'
  BY <1>3, SendOnceIsQuiet, EndQuiet
<1>4. CASE SendPolling
  BY <1>4, EndSendPolling
<1>5. CASE Reading
  BY <1>5, EndReading
<1>6. CASE PeerCloses
  BY <1>6, EndStutter DEF PeerCloses, readVars, localVars
<1>7. CASE UNCHANGED vars
  BY <1>7, EndStutter DEF vars
<1> QED BY <1>1, <1>2, <1>3, <1>4, <1>5, <1>6, <1>7 DEF Next

LEMMA EndInvariance == Spec => []EndInv
  BY InitEndInv, NextEndInv, PTL DEF Spec

\* The user is told of the end once, and by stopped_cb when a stop has found the
\* transport started, whatever the pollers see meanwhile (tcp_transport.cpp:
\* stop, force_stop; base_transport.cpp: the callbacks).
THEOREM EndsOnce == Spec => []OneEnd
<1>1. EndInv => OneEnd
  <2> SUFFICES ASSUME EndInv PROVE OneEnd
    OBVIOUS
  <2>1. ended = <<>> \/ ended = <<"stopped_cb">>
        \/ (ended = <<"disconnected_cb">> /\ state = "disconnected")
    BY DEF EndInv, EndIsFinal
  <2>2. Len(ended) <= 1
    <3>1. Len(<<>>) = 0 /\ Len(<<"stopped_cb">>) = 1 /\ Len(<<"disconnected_cb">>) = 1
      OBVIOUS
    <3>2. Len(ended) = 0 \/ Len(ended) = 1
      BY <2>1, <3>1, Zenon
    <3>3. \A n : (n = 0 \/ n = 1) => n <= 1
      OBVIOUS
    <3> QED BY <3>2, <3>3, Zenon
  <2>3. stoppc \in StopWon => (ended = <<>> \/ ended = <<"stopped_cb">>)
    BY <2>1 DEF EndInv, StopIsKept
  <2> QED BY <2>2, <2>3 DEF OneEnd, StopWon, StopLabels, EndInv, EndTypes
<1> QED BY <1>1, EndInvariance, PTL

\* The final callback closes the socket, and nobody opens it: what a sender is
\* about to write then is not written (flow_tcp.cpp: send).
THEOREM NoWriteAfterEnd == Spec => NothingAfterEnd
<1>1. EndInv /\ [Next]_vars => (ended # <<>> => wire' = wire)
  <2> SUFFICES ASSUME EndInv, [Next]_vars, ended # <<>> PROVE wire' = wire
    OBVIOUS
  <2>0. shut = "rdwr"
    BY DEF EndInv, EndIsFinal
  <2> USE DEF ioVars
  <2>1. CASE Start \/ StartDone
    BY <2>1 DEF Start, StartDone
  <2>2. CASE Stopping
    BY <2>2 DEF Stopping, Stop, StopCas, StopWait, StopWaitEnds, StopClose, StopDisconnecting
  <2>3. ASSUME NEW s \in Senders, Send(s) PROVE wire' = wire
    BY <2>3 DEF Send, SendCall, SendEnter, SendCheck, SendClaim, SendFill, SendReadSize,
                SendAdd, SenderFails, SendLeave
  <2>4. ASSUME NEW t \in Threads, SendOnce(t) PROVE wire' = wire
    BY <2>0, <2>4 DEF SendOnce, PopLast, WantToSend, NetSend, NetSendNothing, PendSub,
                      PendCompare, SendMoreIf, StartSendTracker
  <2>5. CASE SendPolling
    BY <2>5 DEF SendPolling, SendEvent, ChannelEvent, SendFails, TriggerDisconnected,
                TriggerStopped, FinalCallback
  <2>6. CASE Reading
    BY <2>6 DEF Reading, AsyncRead, AsyncReadEnter, AsyncReadCheck, AsyncReadChange,
                AsyncReadTrack, AsyncReadLeave, ReadEvent, ReadWait, Read, ReadAgain,
                ReadCallback, ReadFails, ReadFinalCallback
  <2>7. CASE PeerCloses
    BY <2>7 DEF PeerCloses
  <2>8. CASE UNCHANGED vars
    BY <2>8 DEF vars
  <2> QED BY <2>1, <2>2, <2>3, <2>4, <2>5, <2>6, <2>7, <2>8 DEF Next
<1> QED BY <1>1, EndInvariance, PTL DEF Spec, NothingAfterEnd

-----------------------------------------------------------------------------
(* pending_opt_cnt_.                                                       *)

\* The senders in an operation that is counted, and async_read.
Busy == {s \in Senders : pc[s] \notin Uncalled}
ReadBusy == IF readpc \in Uncalled THEN 0 ELSE 1

OptCounted == opt = Cardinality(Busy) + ReadBusy

OptInv == OptCounted /\ StopWaitsForOpts

LEMMA BusyIsFinite == IsFiniteSet(Busy) /\ Cardinality(Busy) \in Nat
  BY TransportAssumption, FS_Subset, FS_CardinalityType DEF Busy

LEMMA InitOptInv == Init => OptInv
<1> SUFFICES ASSUME Init PROVE OptInv
  OBVIOUS
<1>1. opt = 0 /\ stoppc = "idle" /\ readpc = "idle" /\ \A s \in Senders : pc[s] = "idle"
  BY DEF Init, Threads
<1>2. Busy = {}
  BY <1>1 DEF Busy, Uncalled
<1>3. ReadBusy = 0
  BY <1>1 DEF ReadBusy, Uncalled
<1> QED BY <1>1, <1>2, <1>3, FS_EmptySet DEF OptInv, OptCounted, StopWaitsForOpts

\* Who is counted stays, and who is not counted does not get past the state.
LEMMA OptFrame ==
    ASSUME OptInv, Busy' = Busy, ReadBusy' = ReadBusy, opt' = opt,
           stoppc' \in {"stop_close", "force_close", "done", "force_done"} => StopWaitsForOpts'
    PROVE  OptInv'
  BY DEF OptInv, OptCounted, StopWaitsForOpts

LEMMA QuietKeepsBusy ==
    ASSUME EndInv, NEW t \in Threads, Quiet(t)
    PROVE  Busy' = Busy
<1>1. PICK l \in SendLabels :
          /\ Goto(t, l)
          /\ t \in Senders => (pc[t] \in Uncalled <=> l \in Uncalled)
  BY DEF Quiet
<1>2. Goto(t, l)
  BY <1>1
<1>3. SUFFICES ASSUME NEW s \in Senders
               PROVE  pc[s] \in Uncalled <=> pc'[s] \in Uncalled
  BY DEF Busy
<1>4. pc'[s] = IF s = t THEN l ELSE pc[s]
  BY <1>2 DEF Goto, EndInv, EndTypes, Threads
<1>5. CASE s = t
  BY <1>1, <1>4, <1>5
<1>6. CASE s # t
  BY <1>4, <1>6
<1> QED BY <1>5, <1>6

LEMMA OptQuiet ==
    ASSUME EndInv, OptInv, NEW t \in Threads, Quiet(t)
    PROVE  OptInv'
<1>1. UNCHANGED <<state, stoppc, readpc, opt>>
  BY DEF Quiet, Stays
<1>2. PICK l \in SendLabels :
          /\ Goto(t, l)
          /\ t \in Senders => ((state # "started" /\ pc[t] \in Harmless) => l \in Harmless)
  BY DEF Quiet
<1>3. \A s \in Senders : pc'[s] = IF s = t THEN l ELSE pc[s]
  BY <1>2 DEF Goto, EndInv, EndTypes, Threads
<1>4. ASSUME stoppc \in {"stop_close", "force_close", "done", "force_done"}
      PROVE  StopWaitsForOpts'
  <2>1. state # "started"
    BY <1>4 DEF EndInv, StopIsKept, StopWon
  <2>2. \A s \in Senders : pc[s] \in Harmless
    BY <1>4 DEF OptInv, StopWaitsForOpts, Harmless
  <2>3. \A s \in Senders : pc'[s] \in Harmless
    BY <1>2, <1>3, <2>1, <2>2
  <2>4. readpc' \in Harmless
    BY <1>1, <1>4 DEF OptInv, StopWaitsForOpts, Harmless
  <2> QED BY <2>3, <2>4 DEF StopWaitsForOpts, Harmless
<1>5. Busy' = Busy /\ ReadBusy' = ReadBusy
  BY <1>1, QuietKeepsBusy DEF ReadBusy
<1> QED BY <1>1, <1>4, <1>5, OptFrame

\* A step that leaves the control of senders and readers alone.
LEMMA OptStutter ==
    ASSUME OptInv, UNCHANGED <<opt, readpc>>, \A s \in Senders : pc'[s] = pc[s],
           stoppc' = stoppc
    PROVE  OptInv'
<1>1. Busy' = Busy /\ ReadBusy' = ReadBusy
  BY DEF Busy, ReadBusy
<1> QED BY <1>1, OptFrame DEF OptInv, StopWaitsForOpts

LEMMA OptStartStop ==
    ASSUME EndInv, OptInv, Start \/ StartDone \/ Stopping
    PROVE  OptInv'
<1>1. CASE Start \/ StartDone
  BY <1>1, OptStutter DEF Start, StartDone, readVars, localVars
<1>2. CASE StopWait
  <2>1. opt = 0 /\ UNCHANGED <<opt, readpc, pc>>
    BY <1>2 DEF StopWait, StopWaitEnds, readVars, localVars
  <2>2. ReadBusy = 0 /\ Cardinality(Busy) = 0
    BY <2>1, BusyIsFinite DEF OptInv, OptCounted, ReadBusy
  <2>3. Busy = {}
    BY <2>2, BusyIsFinite, FS_EmptySet
  <2>4. readpc \in Uncalled /\ \A s \in Senders : pc[s] \in Uncalled
    BY <2>2, <2>3 DEF ReadBusy, Busy
  <2>5. StopWaitsForOpts'
    BY <2>1, <2>4 DEF StopWaitsForOpts, Uncalled
  <2>6. Busy' = Busy /\ ReadBusy' = ReadBusy
    BY <2>1 DEF Busy, ReadBusy
  <2> QED BY <2>1, <2>5, <2>6, OptFrame
<1>3. ASSUME (\E kind \in StopKinds : Stop(kind)) \/ StopCas \/ StopClose \/ StopDisconnecting
      PROVE  OptInv'
  <2>1. UNCHANGED <<opt, readpc, pc>>
    BY <1>3 DEF Stop, StopCas, StopClose, StopDisconnecting, readVars, localVars
  <2>2. stoppc' \in {"stop_close", "force_close", "done", "force_done"}
        => stoppc \in {"stop_close", "force_close", "done", "force_done"}
    BY <1>3, TransportAssumption DEF Stop, StopCas, StopClose, StopDisconnecting
  <2>3. StopWaitsForOpts'
    BY <2>1, <2>2 DEF OptInv, StopWaitsForOpts
  <2>4. Busy' = Busy /\ ReadBusy' = ReadBusy
    BY <2>1 DEF Busy, ReadBusy
  <2> QED BY <2>1, <2>3, <2>4, OptFrame
<1> QED BY <1>1, <1>2, <1>3 DEF Stopping

LEMMA OptSenders ==
    ASSUME EndInv, OptInv, NEW s \in Senders, SendEnter(s) \/ SendLeave(s) \/ SenderFails(s)
    PROVE  OptInv'
<1>0. /\ s \in Threads /\ Senders \subseteq Threads
      /\ pc \in [Threads -> SendLabels]
      /\ opt = Cardinality(Busy) + ReadBusy
  BY DEF EndInv, EndTypes, Threads, OptInv, OptCounted
<1>1. IsFiniteSet(Busy) /\ Cardinality(Busy) \in Nat /\ ReadBusy \in Nat
  BY BusyIsFinite DEF ReadBusy
<1>2. CASE SendEnter(s)
  <2>1. /\ pc[s] = "enter" /\ Goto(s, "check") /\ opt' = opt + 1
        /\ readpc' = readpc /\ stoppc' = stoppc
    BY <1>2 DEF SendEnter, readVars
  <2>2. \A q \in Senders : pc'[q] = IF q = s THEN "check" ELSE pc[q]
    BY <1>0, <2>1 DEF Goto
  <2>3. Busy' = Busy \cup {s} /\ s \notin Busy
    BY <2>1, <2>2 DEF Busy, Uncalled
  <2>4. Cardinality(Busy') = Cardinality(Busy) + 1
    BY <1>1, <2>3, FS_AddElement
  <2>5. OptCounted'
    BY <1>0, <1>1, <2>1, <2>4 DEF OptCounted, ReadBusy
  <2> QED BY <2>1, <2>2, <2>5 DEF OptInv, StopWaitsForOpts
<1>3. CASE SendLeave(s)
  <2>1. /\ pc[s] = "leave" /\ Goto(s, "idle") /\ opt' = opt - 1
        /\ readpc' = readpc /\ stoppc' = stoppc
    BY <1>3 DEF SendLeave, readVars
  <2>2. \A q \in Senders : pc'[q] = IF q = s THEN "idle" ELSE pc[q]
    BY <1>0, <2>1 DEF Goto
  <2>3. Busy' = Busy \ {s} /\ s \in Busy
    BY <2>1, <2>2 DEF Busy, Uncalled
  <2>4. Cardinality(Busy') = Cardinality(Busy) - 1
    BY <1>1, <2>3, FS_RemoveElement
  <2>5. OptCounted'
    BY <1>0, <1>1, <2>1, <2>4 DEF OptCounted, ReadBusy
  <2> QED BY <2>1, <2>2, <2>5 DEF OptInv, StopWaitsForOpts
<1>4. CASE SenderFails(s)
  <2>1. /\ readpc' = readpc /\ stoppc' = stoppc /\ opt' = opt
        /\ pc[s] \in {"fault", "post"}
        /\ \A q \in Senders : q # s => pc'[q] = pc[q]
    BY <1>0, <1>4 DEF SenderFails, readVars, Goto
  <2>2. pc'[s] \in {"post", "leave"}
    BY <1>0, <1>4 DEF SenderFails, Goto
  <2>3. Busy' = Busy /\ ReadBusy' = ReadBusy
    BY <2>1, <2>2 DEF Busy, Uncalled, ReadBusy
  <2>4. stoppc \notin {"stop_close", "force_close", "done", "force_done"}
    BY <2>1 DEF OptInv, StopWaitsForOpts
  <2> QED BY <2>1, <2>3, <2>4, OptFrame
<1> QED BY <1>2, <1>3, <1>4

LEMMA OptSendPolling ==
    ASSUME EndInv, OptInv, SendPolling
    PROVE  OptInv'
<1>0. SendPoller \in Threads /\ SendPoller \notin Senders
  BY TransportAssumption DEF Threads
<1>1. CASE SendEvent \/ ChannelEvent
  BY <1>0, <1>1, PollIsQuiet, OptQuiet
<1>2. CASE SendFails \/ TriggerDisconnected \/ TriggerStopped \/ FinalCallback
  <2>1. UNCHANGED <<opt, readpc, stoppc>>
    BY <1>2 DEF SendFails, TriggerDisconnected, TriggerStopped, FinalCallback, readVars
  <2>2. \A s \in Senders : pc'[s] = pc[s]
    BY <1>0, <1>2 DEF SendFails, TriggerDisconnected, TriggerStopped, FinalCallback, Goto,
                      EndInv, EndTypes, Threads
  <2> QED BY <2>1, <2>2, OptStutter
<1> QED BY <1>1, <1>2 DEF SendPolling

LEMMA OptReading ==
    ASSUME EndInv, OptInv, Reading
    PROVE  OptInv'
<1>0. opt = Cardinality(Busy) + ReadBusy /\ Cardinality(Busy) \in Nat
  BY BusyIsFinite DEF OptInv, OptCounted
<1>1. UNCHANGED <<pc, stoppc>> /\ Busy' = Busy
  BY DEF Reading, AsyncRead, AsyncReadEnter, AsyncReadCheck, AsyncReadChange, AsyncReadTrack,
         AsyncReadLeave, ReadEvent, ReadWait, Read, ReadAgain, ReadCallback, ReadFails,
         ReadFinalCallback, readLocal, Busy
<1>2. CASE ReadEvent \/ ReadWait \/ Read \/ ReadAgain \/ ReadCallback \/ ReadFails
           \/ ReadFinalCallback
  <2>1. UNCHANGED <<opt, readpc>>
    BY <1>2 DEF ReadEvent, ReadWait, Read, ReadAgain, ReadCallback, ReadFails,
                ReadFinalCallback
  <2> QED BY <1>1, <2>1, OptStutter
<1>3. CASE AsyncReadEnter
  <2>1. readpc = "enter" /\ readpc' = "check" /\ opt' = opt + 1
    BY <1>3 DEF AsyncReadEnter
  <2>2. ReadBusy = 0 /\ ReadBusy' = 1
    BY <2>1 DEF ReadBusy, Uncalled
  <2> QED BY <1>0, <1>1, <2>1, <2>2 DEF OptInv, OptCounted, StopWaitsForOpts
<1>4. CASE AsyncReadLeave
  <2>1. readpc = "leave" /\ readpc' = "idle" /\ opt' = opt - 1
    BY <1>4 DEF AsyncReadLeave
  <2>2. ReadBusy = 1 /\ ReadBusy' = 0
    BY <2>1 DEF ReadBusy, Uncalled
  <2> QED BY <1>0, <1>1, <2>1, <2>2 DEF OptInv, OptCounted, StopWaitsForOpts
<1>5. CASE AsyncRead \/ AsyncReadCheck \/ AsyncReadChange \/ AsyncReadTrack
  <2>1. opt' = opt /\ ReadBusy' = ReadBusy
    BY <1>5 DEF AsyncRead, AsyncReadCheck, AsyncReadChange, AsyncReadTrack, ReadBusy, Uncalled
  <2>2. \/ readpc' \in Harmless \/ readpc \notin Harmless \/ state = "started"
    BY <1>5 DEF AsyncRead, AsyncReadCheck, AsyncReadChange, AsyncReadTrack, Harmless
  <2>3. ASSUME stoppc \in {"stop_close", "force_close", "done", "force_done"}
        PROVE  StopWaitsForOpts'
    <3>1. state # "started" /\ StopWaitsForOpts
      BY <2>3 DEF EndInv, StopIsKept, StopWon, OptInv
    <3>2. readpc' \in Harmless
      BY <2>2, <2>3, <3>1 DEF StopWaitsForOpts, Harmless
    <3> QED BY <1>1, <3>1, <3>2 DEF StopWaitsForOpts, Harmless
  <2> QED BY <1>1, <2>1, <2>3, OptFrame
<1> QED BY <1>2, <1>3, <1>4, <1>5 DEF Reading

LEMMA NextOptInv == EndInv /\ OptInv /\ [Next]_vars => OptInv'
<1> SUFFICES ASSUME EndInv, OptInv, [Next]_vars PROVE OptInv'
  OBVIOUS
<1>1. CASE Start \/ StartDone \/ Stopping
  BY <1>1, OptStartStop
<1>2. ASSUME NEW s \in Senders, Send(s) PROVE OptInv'
  <2>1. s \in Threads
    BY DEF Threads
  <2>2. CASE SendEnter(s) \/ SendLeave(s) \/ SenderFails(s)
    BY <2>2, OptSenders
  <2>3. CASE ~(SendEnter(s) \/ SendLeave(s) \/ SenderFails(s))
    BY <1>2, <2>1, <2>3, SendIsQuiet, OptQuiet DEF Send
  <2> QED BY <2>2, <2>3
<1>3. ASSUME NEW t \in Threads, SendOnce(t) PROVE OptInv'
  BY <1>3, SendOnceIsQuiet, OptQuiet
<1>4. CASE SendPolling
  BY <1>4, OptSendPolling
<1>5. CASE Reading
  BY <1>5, OptReading
<1>6. CASE PeerCloses
  BY <1>6, OptStutter DEF PeerCloses, readVars, localVars
<1>7. CASE UNCHANGED vars
  BY <1>7, OptStutter DEF vars
<1> QED BY <1>1, <1>2, <1>3, <1>4, <1>5, <1>6, <1>7 DEF Next

\* stop returns from its wait when pending_opt_cnt_ is zero, and no send or
\* async_read begins after it (tcp_transport.cpp: stop, send, async_read).
THEOREM StopWaitsForOperations == Spec => []StopWaitsForOpts
<1>1. Spec => []OptInv
  BY InitOptInv, NextOptInv, EndInvariance, PTL DEF Spec
<1>2. OptInv => StopWaitsForOpts
  BY DEF OptInv
<1> QED BY <1>1, <1>2, PTL

-----------------------------------------------------------------------------
(* A pending read.                                                         *)

Reads == rpc \in {"wait", "read", "got"}

\* ReadChance with its holders two by two, and what keeps it: the read poller
\* and async_read run after start, and after "try" the state is not started.
ReadHeld ==
    /\ rtrk \in BOOLEAN /\ rstate \in {"none", "pending"}
    /\ ~(rtrk /\ readpc = "track") /\ ~(rtrk /\ Reads) /\ ~(readpc = "track" /\ Reads)
    /\ (rtrk \/ readpc = "track" \/ Reads) => rstate = "pending"
    /\ rstate = "pending" => \/ rtrk \/ readpc = "track" \/ Reads
                             \/ rpc \in {"try", "trigger", "disconnected_cb"}
                             \/ state # "started"
    /\ (readpc # "idle" \/ rstate = "pending" \/ rpc # "idle") => startpc = "done"
    /\ rpc \in {"trigger", "disconnected_cb"} => state # "started"
    /\ rpc # "read_cb_try"

LEMMA ReadHeldIsChance == ReadHeld => ReadChance
<1> SUFFICES ASSUME ReadHeld PROVE ReadChance
  OBVIOUS
<1> DEFINE holders == {h \in {"tracker", "async_read", "poller"} :
                         \/ h = "tracker" /\ rtrk
                         \/ h = "async_read" /\ readpc = "track"
                         \/ h = "poller" /\ rpc \in {"wait", "read", "got"}}
<1>1. holders = {} \/ holders = {"tracker"} \/ holders = {"async_read"} \/ holders = {"poller"}
  BY DEF ReadHeld, Reads
<1>2. Cardinality(holders) = 0 \/ Cardinality(holders) = 1
  BY <1>1, FS_EmptySet, FS_Singleton
<1>3. Cardinality(holders) <= 1
  <2>1. \A n : (n = 0 \/ n = 1) => n <= 1
    OBVIOUS
  <2> HIDE DEF holders
  <2> QED BY <1>2, <2>1, Zenon
<1>4. holders # {} => rstate = "pending"
  BY DEF ReadHeld, Reads
<1>5. (rstate = "pending" /\ holders = {}) =>
          rpc \in {"try", "trigger", "disconnected_cb"} \/ state # "started"
  BY DEF ReadHeld, Reads
<1> QED BY <1>3, <1>4, <1>5 DEF ReadChance

LEMMA InitReadHeld == Init => ReadHeld
  BY DEF Init, ReadHeld, Reads

\* The state becomes started when start is done, before any read.
LEMMA ReadHeldFrame ==
    ASSUME ReadHeld, UNCHANGED <<rtrk, rstate, readpc, rpc>>,
           startpc = "done" => (startpc' = "done" /\ (state # "started" => state' # "started"))
    PROVE  ReadHeld'
  BY DEF ReadHeld, Reads

LEMMA ReadHeldReading ==
    ASSUME EndInv, ReadHeld, Reading
    PROVE  ReadHeld'
<1>0. startpc = "done" => state # "none" /\ state # "starting"
  BY DEF EndInv, StartOrder
<1>00. state = "started" => startpc = "done"
  BY DEF EndInv, StartOrder, EndTypes
<1> USE DEF ReadHeld, Reads
<1>1. CASE AsyncRead
  BY <1>00, <1>1 DEF AsyncRead, readLocal
<1>2. CASE AsyncReadEnter
  BY <1>2 DEF AsyncReadEnter, readLocal
<1>3. CASE AsyncReadCheck
  BY <1>3 DEF AsyncReadCheck, readLocal
<1>4. CASE AsyncReadChange
  BY <1>4 DEF AsyncReadChange, readLocal
<1>5. CASE AsyncReadTrack
  BY <1>5 DEF AsyncReadTrack, readLocal
<1>6. CASE AsyncReadLeave
  BY <1>6 DEF AsyncReadLeave, readLocal
<1>7. CASE ReadEvent
  BY <1>7 DEF ReadEvent, readLocal
<1>8. CASE ReadWait
  BY <1>8 DEF ReadWait, readLocal
<1>9. CASE Read
  BY <1>9 DEF Read, readLocal
<1>10. CASE ReadAgain
  BY <1>10, TransportAssumption DEF ReadAgain, readLocal
<1>11. CASE ReadCallback
  BY <1>11 DEF ReadCallback, readLocal
<1>12. CASE ReadFails
  BY <1>12 DEF ReadFails, CasState, CasStateFails, readLocal
<1>13. CASE ReadFinalCallback
  BY <1>13 DEF ReadFinalCallback, readLocal
<1> QED BY <1>1, <1>2, <1>3, <1>4, <1>5, <1>6, <1>7, <1>8, <1>9, <1>10, <1>11, <1>12,
           <1>13 DEF Reading

LEMMA NextReadHeld == EndInv /\ ReadHeld /\ [Next]_vars => ReadHeld'
<1> SUFFICES ASSUME EndInv, ReadHeld, [Next]_vars PROVE ReadHeld'
  OBVIOUS
<1>0. startpc = "done" => state # "none" /\ state # "starting"
  BY DEF EndInv, StartOrder
<1>1. CASE Start \/ StartDone
  BY <1>1, ReadHeldFrame DEF Start, StartDone, readVars
<1>2. CASE Stopping
  BY <1>2, ReadHeldFrame DEF Stopping, Stop, StopCas, StopWait, StopWaitEnds, StopClose,
                             StopDisconnecting, CasState, CasStateFails, readVars
<1>3. ASSUME NEW s \in Senders, Send(s) PROVE ReadHeld'
  <2>1. CASE SendEnter(s) \/ SendLeave(s) \/ SenderFails(s)
    BY <2>1, ReadHeldFrame DEF SendEnter, SendLeave, SenderFails, CasState, CasStateFails,
                               readVars
  <2>2. CASE ~(SendEnter(s) \/ SendLeave(s) \/ SenderFails(s))
    BY <1>3, <2>2, SendIsQuiet, ReadHeldFrame DEF Send, Quiet, Stays
  <2> QED BY <2>1, <2>2
<1>4. ASSUME NEW t \in Threads, SendOnce(t) PROVE ReadHeld'
  BY <1>4, SendOnceIsQuiet, ReadHeldFrame DEF Quiet, Stays
<1>5. CASE SendPolling
  BY <1>5, ReadHeldFrame DEF SendPolling, SendEvent, ChannelEvent, SendFails,
        TriggerDisconnected, TriggerStopped, FinalCallback, CasState, CasStateFails, readVars
<1>6. CASE Reading
  BY <1>6, ReadHeldReading
<1>7. CASE PeerCloses
  BY <1>7, ReadHeldFrame DEF PeerCloses, readVars
<1>8. CASE UNCHANGED vars
  BY <1>8, ReadHeldFrame DEF vars
<1> QED BY <1>1, <1>2, <1>3, <1>4, <1>5, <1>6, <1>7, <1>8 DEF Next

\* A pending read is with the tracker, async_read or the read poller, never with
\* two of them, and with one as long as the transport is started (tcp_transport.cpp:
\* async_read, on_read_event).
THEOREM PendingReadIsHeld == Spec => []ReadChance
<1>1. Spec => []ReadHeld
  BY InitReadHeld, NextReadHeld, EndInvariance, PTL DEF Spec
<1> QED BY <1>1, ReadHeldIsChance, PTL

-----------------------------------------------------------------------------
(* Sending.                                                                *)

\* A sender's buffer, from the claim of its slot to fetch_add.  The pushes of
\* several senders overlap.
Pushing == {"fill", "size", "add"}

\* A sender's buffer, before it is in the sendlist.
Unclaimed == {"enter", "check", "claim"}

OwnBuffer == \A s \in Senders : pc[s] # "idle" => nsent[s] > 0 /\ buf[s] = <<s, nsent[s]>>

\* The buffer of a call that has not reached the sendlist is whole, and it is
\* neither in the sendlist nor being sent.
Fresh ==
    \A s \in Senders : pc[s] \in Unclaimed => full[buf[s]] \in Sizes /\ size[buf[s]] = full[buf[s]]
Known ==
    \A s \in Senders, i \in 1 .. MaxSend :
        <<s, i>> \in Queued \cup {last} =>
            i <= nsent[s] /\ (pc[s] \in Unclaimed => i < nsent[s])

\* Each buffer is in one place, and nobody has begun to send one that is in the
\* sendlist.
QueuedWhole == \A b \in Queued : full[b] \in Sizes /\ size[b] = full[b]
QueuedOnce ==
    /\ \A i, j \in DOMAIN slots : slots[i].val = slots[j].val => i = j
    /\ last \notin Queued

\* A sender that pushes has a slot, which is unfilled only while it fills it.
PushedThere ==
    \A s \in Senders : pc[s] \in Pushing =>
        /\ \E i \in DOMAIN slots : slots[i].val = buf[s] /\ (slots[i].ready <=> pc[s] # "fill")
        /\ pc[s] = "add" => sz[s] = full[buf[s]]
UnfilledPushed ==
    \A i \in DOMAIN slots :
        ~slots[i].ready => \E s \in Senders : pc[s] = "fill" /\ slots[i].val = buf[s]

\* What last_send_iob_, its size and the flow hold.
LastWhole ==
    /\ last # None => full[last] \in Sizes /\ lastSize = full[last]
    /\ flow # None => flow = last
    /\ \A t \in Threads : pc[t] \in {"sub", "resub"} => lastSize \in Sizes

\* The thread with the chance to send, where it is, or the send tracker.
LastFree == {"pop", "sub", "resub", "cmp", "recmp"}
HolderHas(t) ==
    /\ (HasChance(t) /\ pc[t] \in LastFree) => last = None
    /\ pc[t] = "want" => last # None /\ flow = None
    /\ pc[t] \in {"send", "resend"} => last # None /\ flow = last
    /\ pc[t] \in {"again", "fault"} => flow = last
    /\ pc[t] \notin {"assert_failed", "aborted"}
HolderAt ==
    /\ \A t \in Threads : HolderHas(t)
    /\ strk => flow = last

\* Somebody has the chance to send only if something is pending.
ChanceInv ==
    /\ SendChance
    /\ (strk \/ \E t \in Threads : HasChance(t)) => pend > 0

\* Nothing is sent before start is done.
NotBegun == state \in {"none", "starting"} => pend = 0 /\ \A s \in Senders : pc[s] = "idle"

BufferInv == OwnBuffer /\ Fresh /\ Known /\ QueuedWhole /\ QueuedOnce
SlotInv == PushedThere /\ UnfilledPushed
SendInv == BufferInv /\ SlotInv /\ LastWhole /\ HolderAt /\ ChanceInv /\ NotBegun /\ PendingAccounted

-----------------------------------------------------------------------------
(* The bytes of a set of buffers.                                          *)

LEMMA BytesFinite ==
    ASSUME NEW B, IsFiniteSet(B), \A b \in B : full[b] \in Nat
    PROVE  IsFiniteSet(Bytes(B)) /\ Cardinality(Bytes(B)) \in Nat
<1> DEFINE f == [b \in B |-> {b} \X (1 .. full[b])]
           T == {{b} \X (1 .. full[b]) : b \in B}
<1>1. f \in Surjection(B, T)
  BY DEF Surjection
<1>2. IsFiniteSet(T)
  BY <1>1, FS_Surjection, Zenon
<1>3. \A S \in T : IsFiniteSet(S)
  <2> SUFFICES ASSUME NEW b \in B PROVE IsFiniteSet({b} \X (1 .. full[b]))
    OBVIOUS
  <2>0. full[b] \in Int
    OBVIOUS
  <2> HIDE DEF f, T
  <2>1. IsFiniteSet({b})
    BY FS_Singleton
  <2>2. IsFiniteSet(1 .. full[b])
    BY <2>0, FS_Interval
  <2> QED BY <2>1, <2>2, FS_Product
<1>4. IsFiniteSet(UNION T)
  BY <1>2, <1>3, FS_UNION, Zenon
<1> QED BY <1>4, FS_CardinalityType DEF Bytes

LEMMA BytesEmpty == Cardinality(Bytes({})) = 0
<1>1. Bytes({}) = {}
  BY DEF Bytes
<1> QED BY <1>1, FS_EmptySet

\* One more buffer.
LEMMA BytesAdd ==
    ASSUME NEW B, IsFiniteSet(B), \A c \in B : full[c] \in Nat,
           NEW b, b \notin B, full[b] \in Nat
    PROVE  Cardinality(Bytes(B \cup {b})) = Cardinality(Bytes(B)) + full[b]
<1> DEFINE P == {b} \X (1 .. full[b])
<1>1. Bytes(B \cup {b}) = Bytes(B) \cup P
  BY DEF Bytes
<1>2. Bytes(B) \cap P = {}
  BY DEF Bytes
<1>3. IsFiniteSet(P) /\ Cardinality(P) = full[b]
  <2>1. IsFiniteSet({b}) /\ Cardinality({b}) = 1
    BY FS_Singleton
  <2>2. IsFiniteSet(1 .. full[b]) /\ Cardinality(1 .. full[b]) = full[b]
    BY FS_Interval
  <2>3. Cardinality(P) = Cardinality({b}) * Cardinality(1 .. full[b]) /\ IsFiniteSet(P)
    BY <2>1, <2>2, FS_Product
  <2> QED BY <2>1, <2>2, <2>3
<1>4. IsFiniteSet(Bytes(B)) /\ Cardinality(Bytes(B)) \in Nat
  BY BytesFinite
<1>5. Cardinality(Bytes(B) \cup P) = Cardinality(Bytes(B)) + Cardinality(P)
                                    - Cardinality(Bytes(B) \cap P)
  BY <1>3, <1>4, FS_Union, Zenon
<1>6. Cardinality(Bytes(B) \cap P) = 0
  BY <1>2, FS_EmptySet
<1>7. \A x, y \in Nat : x + y - 0 = x + y
  OBVIOUS
<1> HIDE DEF P
<1> QED BY <1>1, <1>3, <1>4, <1>5, <1>6, <1>7

\* A buffer that is there counts with its size.
LEMMA BytesAtLeast ==
    ASSUME NEW B, IsFiniteSet(B), \A c \in B : full[c] \in Nat, NEW b \in B
    PROVE  Cardinality(Bytes(B)) >= full[b]
<1>1. IsFiniteSet(B \ {b})
  BY FS_RemoveElement
<1>2. B = (B \ {b}) \cup {b}
  OBVIOUS
<1>3. Cardinality(Bytes((B \ {b}) \cup {b})) = Cardinality(Bytes(B \ {b})) + full[b]
  BY <1>1, BytesAdd
<1>4. Cardinality(Bytes(B \ {b})) \in Nat
  BY <1>1, BytesFinite
<1>5. Cardinality(Bytes(B)) = Cardinality(Bytes(B \ {b})) + full[b]
  BY <1>2, <1>3
<1> QED BY <1>4, <1>5

-----------------------------------------------------------------------------
(* Which buffers are counted.                                              *)

Slot == [val : Iobs, ready : BOOLEAN]

LEMMA SlotTypes ==
    ASSUME TypeOK
    PROVE  /\ slots \in Seq(Slot)
           /\ Len(slots) \in Nat /\ DOMAIN slots = 1 .. Len(slots)
           /\ \A i \in DOMAIN slots : slots[i].val \in Iobs /\ slots[i].ready \in BOOLEAN
<1>1. slots \in Seq(Slot)
  BY DEF TypeOK, DataTypes, Slot
<1>2. Len(slots) \in Nat /\ DOMAIN slots = 1 .. Len(slots)
  BY <1>1, LenProperties
<1>3. \A i \in 1 .. Len(slots) : slots[i] \in Slot
  BY <1>1, ElementOfSeq
<1> QED BY <1>1, <1>2, <1>3 DEF Slot

LEMMA BufferOfSender ==
    ASSUME TypeOK, SendInv, NEW s \in Senders
    PROVE  /\ pc[s] # "idle" => buf[s] \in Iobs
           /\ pc[s] \in Unclaimed => buf[s] \notin Queued \cup {last}
           /\ pc[s] \in Pushing => buf[s] \in Queued /\ buf[s] # last
<1>1. ASSUME pc[s] # "idle" PROVE buf[s] = <<s, nsent[s]>> /\ nsent[s] \in 1 .. MaxSend
  BY <1>1, TransportAssumption DEF SendInv, BufferInv, OwnBuffer, TypeOK, LocalTypes
<1>2. pc[s] # "idle" => buf[s] \in Iobs
  BY <1>1 DEF Iobs
<1>3. ASSUME pc[s] \in Unclaimed PROVE buf[s] \notin Queued \cup {last}
  <2>1. buf[s] = <<s, nsent[s]>> /\ nsent[s] \in 1 .. MaxSend
    BY <1>1, <1>3 DEF Unclaimed
  <2>2. ~(nsent[s] < nsent[s])
    BY <2>1
  <2> QED BY <1>3, <2>1, <2>2 DEF SendInv, BufferInv, Known
<1>4. ASSUME pc[s] \in Pushing PROVE buf[s] \in Queued /\ buf[s] # last
  <2>1. \E i \in DOMAIN slots : slots[i].val = buf[s]
    BY <1>4 DEF SendInv, SlotInv, PushedThere
  <2>3. buf[s] \in Queued
    BY <2>1 DEF Queued
  <2> QED BY <2>3 DEF SendInv, BufferInv, QueuedOnce
<1> QED BY <1>2, <1>3, <1>4

LEMMA QueuedTypes ==
    ASSUME TypeOK
    PROVE  Queued \subseteq Iobs /\ IsFiniteSet(Iobs) /\ None \notin Queued
<1>1. \A i \in DOMAIN slots : slots[i].val \in Iobs
  BY SlotTypes
<1>2. Queued \subseteq Iobs
  BY <1>1 DEF Queued
<1>3. IsFiniteSet(1 .. MaxSend)
  BY TransportAssumption, FS_Interval
<1>4. IsFiniteSet(Iobs)
  BY <1>3, TransportAssumption, FS_Product DEF Iobs
<1> QED BY <1>2, <1>4, TransportAssumption

LEMMA CountedTypes ==
    ASSUME TypeOK, SendInv
    PROVE  /\ IsFiniteSet(Counted)
           /\ \A b \in Counted : full[b] \in Sizes /\ full[b] \in Nat /\ full[b] > 0
           /\ last # None => last \in Counted
           /\ \A b \in Queued : (b \notin Counted) => \E s \in Senders : pc[s] \in Pushing /\ b = buf[s]
<1>1. Counted \subseteq Iobs
  BY QueuedTypes DEF Counted, TypeOK, DataTypes
<1>2. IsFiniteSet(Counted)
  BY <1>1, QueuedTypes, FS_Subset
<1>3. \A b \in Counted : full[b] \in Sizes
  BY DEF Counted, SendInv, BufferInv, QueuedWhole, LastWhole
<1>4. \A n \in Sizes : n \in Nat /\ n > 0
  BY TransportAssumption
<1>5. ASSUME last # None PROVE last \in Counted
  <2>1. ASSUME last \in Uncounted PROVE FALSE
    <3>1. PICK s \in Senders : pc[s] \in Unclaimed \cup Pushing /\ last = buf[s]
      BY <2>1 DEF Uncounted, Unclaimed, Pushing
    <3> QED BY <3>1, BufferOfSender
  <2> QED BY <1>5, <2>1 DEF Counted
<1>6. ASSUME NEW b \in Queued, b \notin Counted
      PROVE  \E s \in Senders : pc[s] \in Pushing /\ b = buf[s]
  <2>1. b \in Uncounted
    BY <1>6, QueuedTypes DEF Counted
  <2>2. PICK s \in Senders : pc[s] \in Unclaimed \cup Pushing /\ b = buf[s]
    BY <2>1 DEF Uncounted, Unclaimed, Pushing
  <2> QED BY <2>2, BufferOfSender
<1> QED BY <1>2, <1>3, <1>4, <1>5, <1>6

\* While nothing is being subtracted, pending_send_size_ tells whether anything
\* is counted.
LEMMA PendingTells ==
    ASSUME TypeOK, SendInv
    PROVE  /\ pend \in Nat
           /\ pend = 0 => Counted = {} /\ last = None /\ flow = None
           /\ (pend > 0 /\ ~\E t \in Threads : pc[t] \in {"sub", "resub"}) => Counted # {}
<1>1. IsFiniteSet(Counted) /\ \A b \in Counted : full[b] \in Nat /\ full[b] > 0
  BY CountedTypes
<1> DEFINE n == Cardinality(Bytes(Counted))
           m == IF \E t \in Threads : pc[t] \in {"sub", "resub"} THEN lastSize ELSE 0
<1>2. n \in Nat
  BY <1>1, BytesFinite
<1>3. m \in Nat /\ pend = n + m
  BY DEF TypeOK, DataTypes, SendInv, PendingAccounted
<1>4. ASSUME NEW b \in Counted PROVE n > 0
  <2>1. n >= full[b] /\ full[b] > 0 /\ full[b] \in Nat
    BY <1>1, BytesAtLeast
  <2> HIDE DEF n
  <2> QED BY <1>2, <2>1
<1>5. Counted = {} => n = 0
  BY BytesEmpty
<1>6. pend = 0 => n = 0
  <2> HIDE DEF n, m
  <2> QED BY <1>2, <1>3
<1>7. (~\E t \in Threads : pc[t] \in {"sub", "resub"}) => m = 0
  OBVIOUS
<1>8. last # None => Counted # {}
  BY CountedTypes
<1>9. flow # None => last # None
  BY DEF SendInv, LastWhole
<1>10. pend = 0 => Counted = {}
  <2> HIDE DEF n
  <2> QED BY <1>4, <1>6
<1>11. (pend > 0 /\ m = 0) => Counted # {}
  <2> HIDE DEF n, m
  <2> QED BY <1>2, <1>3, <1>5
<1>12. pend \in Nat
  <2> HIDE DEF n, m
  <2> QED BY <1>2, <1>3
<1> QED BY <1>7, <1>8, <1>9, <1>10, <1>11, <1>12

-----------------------------------------------------------------------------
(* Steps in which nothing is pushed, popped, sent or subtracted.           *)

sendData == <<pend, slots, last, lastSize, flow, size, full, strk, buf, sz, old, nsent>>

\* A thread that goes on outside __send_once and outside the push, and does not
\* give up the chance to send while the transport is started.
Plain == {"idle", "check", "claim", "leave", "post", "trigger", "end",
          "disconnected_cb", "stopped_cb"}
PlainMove(t) ==
    /\ pc[t] \notin Pushing \cup {"sub", "resub"} /\ pc'[t] \in Plain
    /\ t \in Senders => /\ pc[t] = "idle" => pc'[t] = "idle"
                        /\ pc'[t] \in Unclaimed => pc[t] \in Unclaimed
    /\ HasChance(t) => state' # "started"

StateMoves ==
    /\ state' \in {"none", "starting"} => state \in {"none", "starting"}
    /\ state' = "started" => state \in {"starting", "started"}

LEMMA QueuedSame == ASSUME UNCHANGED slots PROVE Queued' = Queued
  BY DEF Queued

\* The senders push and are about to push as before, up to one that has found
\* the transport not started; only the buffer being sent changes.
PushesKept ==
    /\ \A s \in Senders : /\ pc'[s] \in Unclaimed => pc[s] \in Unclaimed
                          /\ pc'[s] \in Pushing => pc'[s] = pc[s]
                          /\ pc[s] \in Pushing => pc'[s] = pc[s]
                          /\ pc'[s] # "idle" => pc[s] # "idle"
                          /\ pc[s] \in Pushing => sz'[s] = sz[s]
    /\ UNCHANGED <<slots, full, buf, nsent>>
    /\ last' \in {last, None}
    /\ \A b \in Queued \cup {buf[s] : s \in {q \in Senders : pc[q] \in Unclaimed}} :
           size'[b] = size[b]

LEMMA PushFrame ==
    ASSUME TypeOK, SendInv, PushesKept
    PROVE  /\ BufferInv' /\ SlotInv'
           /\ Queued' = Queued
           /\ \A b \in Queued \cup {last} : b # None => (b \in Uncounted' <=> b \in Uncounted)
<1> USE DEF PushesKept
<1>1. Queued' = Queued
  BY QueuedSame
<1>2. None \notin Queued
  BY QueuedTypes
<1>3. BufferInv'
  <2>1. OwnBuffer'
    BY DEF SendInv, BufferInv, OwnBuffer
  <2>2. Fresh'
    BY DEF SendInv, BufferInv, Fresh
  <2>3. Known'
    <3> SUFFICES ASSUME NEW s \in Senders, NEW i \in 1 .. MaxSend, <<s, i>> \in Queued \cup {last'}
                 PROVE  i <= nsent[s] /\ (pc'[s] \in Unclaimed => i < nsent[s])
      BY <1>1 DEF Known
    <3>1. <<s, i>> # None
      BY TransportAssumption DEF Iobs
    <3> QED BY <3>1 DEF SendInv, BufferInv, Known
  <2>4. QueuedWhole' /\ QueuedOnce'
    BY <1>1, <1>2 DEF SendInv, BufferInv, QueuedWhole, QueuedOnce
  <2> QED BY <2>1, <2>2, <2>3, <2>4 DEF BufferInv
<1>4. SlotInv'
  <2>1. PushedThere'
    BY DEF SendInv, SlotInv, PushedThere
  <2>2. UnfilledPushed'
    BY DEF SendInv, SlotInv, UnfilledPushed, Pushing
  <2> QED BY <2>1, <2>2 DEF SlotInv
<1>5. ASSUME NEW b \in Queued \cup {last} PROVE b \in Uncounted' <=> b \in Uncounted
  <2>1. ASSUME NEW s \in Senders
        PROVE  (pc'[s] \in Pushing /\ buf'[s] = b) <=> (pc[s] \in Pushing /\ buf[s] = b)
    OBVIOUS
  <2>2. ASSUME NEW s \in Senders, pc'[s] \in Unclaimed PROVE buf'[s] # b
    BY <2>2, BufferOfSender
  <2>3. ASSUME NEW s \in Senders, pc[s] \in Unclaimed PROVE buf[s] # b
    BY <2>3, BufferOfSender
  <2> QED BY <2>1, <2>2, <2>3 DEF Uncounted, Pushing, Unclaimed
<1> QED BY <1>1, <1>3, <1>4, <1>5

\* What is counted stays if no buffer has been sent and nothing subtracted.
LEMMA PendingFrame ==
    ASSUME TypeOK, SendInv, PushesKept, UNCHANGED <<pend, last, lastSize>>,
           (\E t \in Threads : pc'[t] \in {"sub", "resub"})
               <=> (\E t \in Threads : pc[t] \in {"sub", "resub"})
    PROVE  PendingAccounted'
<1>1. Counted' = Counted
  BY PushFrame DEF Counted
<1>2. Bytes(Counted)' = Bytes(Counted)
  BY <1>1 DEF Bytes, PushesKept
<1> QED BY <1>2 DEF SendInv, PendingAccounted

LEMMA PlainStep ==
    ASSUME TypeOK, SendInv, UNCHANGED sendData, StateMoves,
           \A t \in Threads : pc'[t] = pc[t] \/ PlainMove(t)
    PROVE  SendInv'
<1>0. UNCHANGED <<pend, slots, last, lastSize, flow, size, full, strk, buf, sz, old, nsent>>
  BY DEF sendData
<1>1. PushesKept
  BY <1>0 DEF PushesKept, PlainMove, Plain, Pushing, Threads
<1>2. BufferInv' /\ SlotInv'
  BY <1>1, PushFrame
<1>3. \A t \in Threads : (HasChance(t))' => pc'[t] = pc[t] /\ HasChance(t)
  BY <1>0 DEF HasChance, PlainMove, Plain
<1>4. LastWhole'
  BY <1>0 DEF SendInv, LastWhole, PlainMove, Plain
<1>5. HolderAt'
  <2>1. ASSUME NEW t \in Threads PROVE (HolderHas(t))'
    <3>1. CASE pc'[t] = pc[t]
      BY <1>0, <1>3, <3>1 DEF SendInv, HolderAt, HolderHas
    <3>2. CASE PlainMove(t)
      BY <1>3, <3>2 DEF PlainMove, Plain, LastFree, HolderHas
    <3> QED BY <3>1, <3>2
  <2> QED BY <1>0, <2>1 DEF SendInv, HolderAt
<1>6. ChanceInv'
  <2>1. \A t, u \in Threads : (HasChance(t) /\ HasChance(u))' => t = u
    BY <1>3 DEF SendInv, ChanceInv, SendChance
  <2>2. strk' => \A t \in Threads : ~(HasChance(t))'
    BY <1>0, <1>3 DEF SendInv, ChanceInv, SendChance
  <2>3. ASSUME pend' > 0, state' = "started" PROVE strk' \/ \E t \in Threads : (HasChance(t))'
    <3>1. state = "started"
      BY <1>0, <2>3, PendingTells DEF StateMoves, SendInv, NotBegun
    <3>2. CASE strk
      BY <1>0, <3>2
    <3>3. CASE ~strk
      <4>1. PICK t \in Threads : HasChance(t)
        BY <1>0, <2>3, <3>1, <3>3 DEF SendInv, ChanceInv, SendChance
      <4>2. pc'[t] = pc[t]
        BY <2>3, <4>1 DEF PlainMove
      <4> QED BY <1>0, <4>1, <4>2 DEF HasChance
    <3> QED BY <3>2, <3>3
  <2>4. (strk' \/ \E t \in Threads : (HasChance(t))') => pend' > 0
    BY <1>0, <1>3 DEF SendInv, ChanceInv
  <2> QED BY <2>1, <2>2, <2>3, <2>4 DEF ChanceInv, SendChance
<1>7. NotBegun'
  BY <1>0, <1>1 DEF SendInv, NotBegun, StateMoves, PushesKept
<1>8. PendingAccounted'
  <2>1. (\E t \in Threads : pc'[t] \in {"sub", "resub"}) <=> (\E t \in Threads : pc[t] \in {"sub", "resub"})
    BY DEF PlainMove, Plain
  <2> QED BY <1>0, <1>1, <2>1, PendingFrame
<1> QED BY <1>2, <1>4, <1>5, <1>6, <1>7, <1>8 DEF SendInv

-----------------------------------------------------------------------------
(* Steps of the thread with the chance to send.                            *)

\* Nobody else has it.
LEMMA OneHolder ==
    ASSUME SendInv, NEW t \in Threads,
           HasChance(t) \/ strk \/ pend = 0
    PROVE  /\ \A u \in Threads \ {t} : ~HasChance(u)
           /\ (HasChance(t) \/ pend = 0) => ~strk
           /\ (HasChance(t) \/ strk) => pend > 0
<1>1. ~(0 > 0)
  OBVIOUS
<1> QED BY <1>1 DEF SendInv, ChanceInv, SendChance

LEMMA HolderStep ==
    ASSUME SendInv, NEW t \in Threads,
           \A u \in Threads \ {t} : pc'[u] = pc[u] /\ ~HasChance(u) /\ ~(HasChance(u))',
           (HolderHas(t))',
           strk' => flow' = last' /\ ~(HasChance(t))',
           (strk' \/ (HasChance(t))') => pend' > 0,
           (pend' > 0 /\ state' = "started") => strk' \/ (HasChance(t))'
    PROVE  HolderAt' /\ ChanceInv'
<1>1. ASSUME NEW u \in Threads \ {t} PROVE (HolderHas(u))'
  <2>1. pc[u] \notin {"assert_failed", "aborted"}
    BY DEF SendInv, HolderAt, HolderHas
  <2> QED BY <2>1 DEF HolderHas, HasChance
<1> QED BY <1>1 DEF HolderAt, ChanceInv, SendChance

\* The control of the other threads and what they hold stays.
OthersStay(t) ==
    \A u \in Threads \ {t} : pc'[u] = pc[u] /\ old'[u] = old[u] /\ sz'[u] = sz[u]

LEMMA OthersHaveNone ==
    ASSUME SendInv, NEW t \in Threads, OthersStay(t),
           HasChance(t) \/ strk \/ pend = 0
    PROVE  \A u \in Threads \ {t} : pc'[u] = pc[u] /\ ~HasChance(u) /\ ~(HasChance(u))'
  BY OneHolder DEF OthersStay, HasChance

\* A step in which it goes on and keeps the chance, without popping or
\* subtracting.
LEMMA KeepStep ==
    ASSUME TypeOK, SendInv, NEW t \in Threads, HasChance(t), pc[t] \notin {"sub", "resub"},
           NEW l \in {"pop", "send", "again", "fault"}, Goto(t, l),
           UNCHANGED <<pend, slots, last, lastSize, full, strk, buf, sz, old, nsent, state>>,
           \A b \in Iobs : b # last => size'[b] = size[b],
           flow' \in {flow, last},
           l = "pop" => last = None,
           l = "send" => last # None,
           l # "pop" => flow' = last
    PROVE  SendInv'
<1>1. /\ \A u \in Threads : pc'[u] = IF u = t THEN l ELSE pc[u]
      /\ Senders \subseteq Threads
  BY DEF TypeOK, ControlTypes, Goto, Threads
<1>2. pc[t] \notin Pushing \cup Unclaimed \cup {"idle"}
  BY DEF HasChance, Pushing, Unclaimed
<1>3. PushesKept
  <2>1. \A b \in Queued \cup {buf[s] : s \in {q \in Senders : pc[q] \in Unclaimed}} : size'[b] = size[b]
    <3>1. \A b \in Queued : b \in Iobs /\ b # last
      BY QueuedTypes DEF SendInv, BufferInv, QueuedOnce
    <3>2. ASSUME NEW s \in Senders, pc[s] \in Unclaimed PROVE buf[s] \in Iobs /\ buf[s] # last
      BY <3>2, BufferOfSender DEF Unclaimed
    <3> QED BY <3>1, <3>2
  <2> QED BY <1>1, <1>2, <2>1 DEF PushesKept, Pushing, Unclaimed
<1>4. BufferInv' /\ SlotInv'
  BY <1>3, PushFrame
<1>5. LastWhole'
  BY <1>1 DEF SendInv, LastWhole
<1>6. OthersStay(t)
  BY <1>1 DEF OthersStay
<1>7. (HasChance(t))' /\ (HolderHas(t))'
  BY <1>1 DEF HasChance, HolderHas, LastFree
<1>8. ~strk /\ pend > 0 /\ state \notin {"none", "starting"}
  BY OneHolder, PendingTells DEF SendInv, NotBegun
<1>9. HolderAt' /\ ChanceInv'
  BY <1>6, <1>7, <1>8, OthersHaveNone, HolderStep
<1>10. NotBegun'
  BY <1>8 DEF NotBegun
<1>11. PendingAccounted'
  <2>1. (\E u \in Threads : pc'[u] \in {"sub", "resub"}) <=> (\E u \in Threads : pc[u] \in {"sub", "resub"})
    BY <1>1
  <2> QED BY <1>3, <2>1, PendingFrame
<1> QED BY <1>4, <1>5, <1>9, <1>10, <1>11 DEF SendInv

LEMMA SendWantToSend ==
    ASSUME TypeOK, SendInv, NEW t \in Threads, WantToSend(t)
    PROVE  SendInv'
<1>1. last # None /\ flow = None /\ HasChance(t)
  BY DEF WantToSend, SendInv, HolderAt, HolderHas, HasChance
<1>2. /\ pc[t] = "want" /\ flow' = last /\ Goto(t, "send")
      /\ UNCHANGED <<pend, slots, last, lastSize, size, full, strk, buf, sz, old, nsent, state>>
  BY <1>1 DEF WantToSend, ioVars
<1> QED BY <1>1, <1>2, KeepStep

LEMMA SendNetSendNothing ==
    ASSUME TypeOK, SendInv, NEW t \in Threads, NetSendNothing(t)
    PROVE  SendInv'
<1>1. pc[t] \in {"send", "resend"} /\ flow = last /\ HasChance(t)
  BY DEF NetSendNothing, SendInv, HolderAt, HolderHas, HasChance
<1>2. UNCHANGED <<pend, slots, last, lastSize, flow, size, full, strk, buf, sz, old, nsent, state>>
  BY DEF NetSendNothing, sendVars, ioVars
<1>3. PICK l \in {"again", "fault"} : Goto(t, l)
  BY DEF NetSendNothing
<1> QED BY <1>1, <1>2, <1>3, KeepStep

LEMMA SendPendCompare ==
    ASSUME TypeOK, SendInv, ~astray', NEW t \in Threads, PendCompare(t)
    PROVE  SendInv'
<1>1. /\ pc[t] \in {"cmp", "recmp"}
      /\ UNCHANGED <<pend, slots, last, lastSize, flow, size, full, strk, buf, sz, old, nsent, state>>
      /\ (old[t] > lastSize) <=> (old[t] > sz[t])
  BY DEF PendCompare, SendMoreIf, Misread, ioVars
<1>2. CASE old[t] > lastSize
  <2>1. HasChance(t) /\ last = None /\ flow = None
    BY <1>1, <1>2 DEF HasChance, SendInv, HolderAt, HolderHas, LastFree, LastWhole
  <2>2. PICK l \in {"again", "pop"} : Goto(t, l)
    BY <1>2 DEF PendCompare, SendMoreIf
  <2> QED BY <1>1, <2>1, <2>2, KeepStep
<1>3. CASE ~(old[t] > lastSize)
  <2>1. ~HasChance(t)
    BY <1>1, <1>3 DEF HasChance
  <2>2. PICK l \in {"leave", "end"} : Goto(t, l)
    BY <1>3 DEF PendCompare, SendMoreIf, Finish
  <2>3. \A u \in Threads : pc'[u] = IF u = t THEN l ELSE pc[u]
    BY <2>2 DEF TypeOK, ControlTypes, Goto
  <2>4. PlainMove(t)
    BY <1>1, <2>1, <2>3 DEF PlainMove, Plain, Pushing, Unclaimed
  <2> QED BY <1>1, <2>3, <2>4, PlainStep DEF sendData, StateMoves
<1> QED BY <1>2, <1>3

LEMMA SendStartSendTracker ==
    ASSUME TypeOK, SendInv, NEW t \in Threads, StartSendTracker(t)
    PROVE  SendInv'
<1>1. /\ pc[t] = "again" /\ HasChance(t) /\ flow = last
      /\ UNCHANGED <<pend, slots, last, lastSize, flow, size, full, buf, sz, old, nsent, state>>
  BY DEF StartSendTracker, HasChance, SendInv, HolderAt, HolderHas, sendVars
<1>2. ~strk /\ pend > 0 /\ state \notin {"none", "starting"}
  BY <1>1, OneHolder, PendingTells DEF SendInv, NotBegun
<1>3. strk' = TRUE /\ \E l \in {"leave", "idle"} : Goto(t, l) /\ (t \in Senders => l = "leave")
  BY <1>2 DEF StartSendTracker, Finish
<1>4. PICK l \in {"leave", "idle"} : Goto(t, l) /\ (t \in Senders => l = "leave")
  BY <1>3
<1>5. \A u \in Threads : pc'[u] = IF u = t THEN l ELSE pc[u]
  BY <1>4 DEF TypeOK, ControlTypes, Goto
<1>6. PushesKept
  BY <1>1, <1>4, <1>5 DEF PushesKept, Pushing, Unclaimed, Threads
<1>7. BufferInv' /\ SlotInv'
  BY <1>6, PushFrame
<1>8. LastWhole'
  BY <1>1, <1>5 DEF SendInv, LastWhole
<1>9. (HolderHas(t))' /\ ~(HasChance(t))'
  BY <1>5 DEF HasChance, HolderHas, LastFree
<1>10. OthersStay(t)
  BY <1>1, <1>5 DEF OthersStay
<1>11. HolderAt' /\ ChanceInv'
  BY <1>1, <1>2, <1>3, <1>9, <1>10, OthersHaveNone, HolderStep
<1>12. NotBegun'
  BY <1>1, <1>2 DEF NotBegun
<1>13. PendingAccounted'
  <2>1. (\E u \in Threads : pc'[u] \in {"sub", "resub"}) <=> (\E u \in Threads : pc[u] \in {"sub", "resub"})
    BY <1>1, <1>5
  <2> QED BY <1>1, <1>6, <2>1, PendingFrame
<1> QED BY <1>7, <1>8, <1>11, <1>12, <1>13 DEF SendInv

\* The send tracker hands the chance to the send poller.
LEMMA SendSendEvent ==
    ASSUME TypeOK, SendInv, SendEvent
    PROVE  SendInv'
<1> DEFINE t == SendPoller
           l == IF last # None THEN "resend" ELSE "pop"
<1>1. /\ t \in Threads /\ t \notin Senders
      /\ pc[t] = "idle" /\ strk /\ strk' = FALSE /\ Goto(t, l)
      /\ UNCHANGED <<pend, slots, last, lastSize, flow, size, full, buf, sz, old, nsent, state>>
  BY TransportAssumption DEF SendEvent, Threads, sendVars
<1>2. flow = last /\ pend > 0 /\ state \notin {"none", "starting"}
  BY <1>1, OneHolder, PendingTells DEF SendInv, NotBegun, HolderAt
<1>5. \A u \in Threads : pc'[u] = IF u = t THEN l ELSE pc[u]
  BY <1>1 DEF TypeOK, ControlTypes, Goto
<1>6. PushesKept
  BY <1>1, <1>5 DEF PushesKept, Threads
<1>7. BufferInv' /\ SlotInv'
  BY <1>6, PushFrame
<1>8. LastWhole'
  BY <1>1, <1>5 DEF SendInv, LastWhole
<1>9. (HolderHas(t))' /\ (HasChance(t))'
  BY <1>1, <1>2, <1>5 DEF HasChance, HolderHas, LastFree
<1>10. OthersStay(t)
  BY <1>1, <1>5 DEF OthersStay
<1>11. HolderAt' /\ ChanceInv'
  <2> HIDE DEF t, l
  <2> QED BY <1>1, <1>2, <1>9, <1>10, OthersHaveNone, HolderStep
<1>12. NotBegun'
  BY <1>1, <1>2 DEF NotBegun
<1>13. PendingAccounted'
  <2>1. (\E u \in Threads : pc'[u] \in {"sub", "resub"}) <=> (\E u \in Threads : pc[u] \in {"sub", "resub"})
    BY <1>1, <1>5
  <2> QED BY <1>1, <1>6, <2>1, PendingFrame
<1> QED BY <1>7, <1>8, <1>11, <1>12, <1>13 DEF SendInv

\* A buffer is sent in part or as a whole: then its size is still to be subtracted.
LEMMA SendNetSend ==
    ASSUME TypeOK, SendInv, NEW t \in Threads, NetSend(t)
    PROVE  SendInv'
<1>1. /\ pc[t] \in {"send", "resend"} /\ HasChance(t) /\ flow = last /\ last # None
      /\ UNCHANGED <<pend, slots, lastSize, full, strk, buf, sz, old, nsent, state>>
  BY DEF NetSend, SendInv, HolderAt, HolderHas, HasChance
<1>2. last \in Iobs /\ \A c \in Iobs : c # last => size'[c] = size[c]
  BY <1>1 DEF NetSend, TypeOK, DataTypes
<1>3. CASE Goto(t, "again") /\ UNCHANGED <<flow, last>>
  BY <1>1, <1>2, <1>3, KeepStep
<1>4. CASE \E l \in {"sub", "resub"} : Goto(t, l) /\ flow' = None /\ last' = None
  <2>1. PICK l \in {"sub", "resub"} : Goto(t, l)
    BY <1>4
  <2>2. flow' = None /\ last' = None
    BY <1>4
  <2>3. \A u \in Threads : pc'[u] = IF u = t THEN l ELSE pc[u]
    BY <2>1 DEF TypeOK, ControlTypes, Goto
  <2>4. ~strk /\ pend > 0 /\ state \notin {"none", "starting"}
        /\ \A u \in Threads \ {t} : ~HasChance(u)
    BY <1>1, OneHolder, PendingTells DEF SendInv, NotBegun
  <2>5. PushesKept
    <3>1. \A c \in Queued \cup {buf[s] : s \in {q \in Senders : pc[q] \in Unclaimed}} : size'[c] = size[c]
      <4>1. \A c \in Queued : c \in Iobs /\ c # last
        BY QueuedTypes DEF SendInv, BufferInv, QueuedOnce
      <4>2. ASSUME NEW s \in Senders, pc[s] \in Unclaimed PROVE buf[s] \in Iobs /\ buf[s] # last
        BY <4>2, BufferOfSender DEF Unclaimed
      <4> QED BY <1>2, <4>1, <4>2
    <3> QED BY <1>1, <2>2, <2>3, <3>1 DEF PushesKept, Pushing, Unclaimed, Threads
  <2>6. BufferInv' /\ SlotInv'
    BY <2>5, PushFrame
  <2>7. LastWhole'
    BY <1>1, <2>2, <2>3 DEF SendInv, LastWhole
  <2>8. (HolderHas(t))' /\ (HasChance(t))'
    BY <2>2, <2>3 DEF HasChance, HolderHas
  <2>9. OthersStay(t)
    BY <1>1, <2>3 DEF OthersStay
  <2>10. HolderAt' /\ ChanceInv'
    BY <1>1, <2>4, <2>8, <2>9, OthersHaveNone, HolderStep
  <2>11. NotBegun'
    BY <1>1, <2>4 DEF NotBegun
  <2>12. PendingAccounted'
    <3>1. last \notin Queued /\ last \in Counted /\ full[last] = lastSize
      BY <1>1, CountedTypes DEF SendInv, BufferInv, QueuedOnce, LastWhole
    <3>2. Counted' = Counted \ {last}
      BY <2>2, <2>5, <3>1, PushFrame DEF Counted
    <3>3. IsFiniteSet(Counted') /\ last \notin Counted' /\ Counted = Counted' \cup {last}
          /\ \A c \in Counted : full[c] \in Nat
      BY <3>1, <3>2, CountedTypes, FS_RemoveElement
    <3>4. Cardinality(Bytes(Counted' \cup {last})) = Cardinality(Bytes(Counted')) + full[last]
      BY <3>1, <3>3, BytesAdd
    <3>5. Bytes(Counted)' = Bytes(Counted')
      BY <1>1 DEF Bytes
    <3>6. ~\E u \in Threads : pc[u] \in {"sub", "resub"}
      BY <1>1, <2>4 DEF HasChance
    <3>7. pend = Cardinality(Bytes(Counted))
      <4>1. pend = Cardinality(Bytes(Counted)) + 0
        BY <3>6 DEF SendInv, PendingAccounted
      <4>2. Cardinality(Bytes(Counted)) \in Nat
        BY CountedTypes, BytesFinite
      <4> QED BY <4>1, <4>2
    <3>8. \E u \in Threads : pc'[u] \in {"sub", "resub"}
      BY <2>3
    <3>9. pend = Cardinality(Bytes(Counted')) + lastSize
      BY <3>1, <3>3, <3>4, <3>7
    <3> QED BY <1>1, <3>5, <3>8, <3>9 DEF PendingAccounted
  <2> QED BY <2>6, <2>7, <2>10, <2>11, <2>12 DEF SendInv
<1> QED BY <1>3, <1>4 DEF NetSend

LEMMA SendPendSub ==
    ASSUME TypeOK, SendInv, NEW t \in Threads, PendSub(t)
    PROVE  SendInv'
<1>1. /\ pc[t] \in {"sub", "resub"} /\ HasChance(t) /\ last = None /\ flow = None
      /\ lastSize \in Sizes /\ lastSize \in Nat /\ lastSize > 0
      /\ UNCHANGED <<slots, last, lastSize, flow, size, full, strk, buf, nsent, state>>
      /\ pend' = pend - lastSize
  <2>1. /\ pc[t] \in {"sub", "resub"} /\ HasChance(t)
        /\ UNCHANGED <<slots, last, lastSize, flow, size, full, strk, buf, nsent, state>>
        /\ pend' = pend - lastSize
    BY DEF PendSub, HasChance, ioVars
  <2>2. last = None /\ flow = None /\ lastSize \in Sizes
    BY <2>1 DEF SendInv, HolderAt, HolderHas, LastFree, LastWhole
  <2> QED BY <2>1, <2>2, TransportAssumption
<1>2. PICK l \in {"cmp", "recmp"} : Goto(t, l)
  BY DEF PendSub
<1>3. \A u \in Threads : /\ pc'[u] = IF u = t THEN l ELSE pc[u]
                         /\ old'[u] = IF u = t THEN pend ELSE old[u]
                         /\ sz'[u] = IF u = t THEN lastSize ELSE sz[u]
  BY <1>2 DEF TypeOK, ControlTypes, LocalTypes, Goto, PendSub
<1>4. ~strk /\ pend > 0 /\ state \notin {"none", "starting"}
      /\ \A u \in Threads \ {t} : ~HasChance(u)
  BY <1>1, OneHolder, PendingTells DEF SendInv, NotBegun
<1>5. PushesKept
  BY <1>1, <1>3 DEF PushesKept, Pushing, Unclaimed, Threads
<1>6. BufferInv' /\ SlotInv'
  BY <1>5, PushFrame
<1>7. LastWhole'
  BY <1>1, <1>3 DEF SendInv, LastWhole
<1>8. Cardinality(Bytes(Counted)) \in Nat /\ pend' = Cardinality(Bytes(Counted))
  <2>1. Cardinality(Bytes(Counted)) \in Nat
    BY CountedTypes, BytesFinite
  <2>2. pend = Cardinality(Bytes(Counted)) + lastSize
    BY <1>1 DEF SendInv, PendingAccounted
  <2> QED BY <1>1, <2>1, <2>2
<1>9. (HasChance(t))' <=> pend' > 0
  <2>1. (HasChance(t))' <=> pend > lastSize
    BY <1>1, <1>3 DEF HasChance
  <2>2. pend \in Int
    BY DEF TypeOK, DataTypes
  <2> QED BY <1>1, <2>1, <2>2
<1>10. (HolderHas(t))'
  BY <1>1, <1>3 DEF HolderHas
<1>11. OthersStay(t)
  BY <1>3 DEF OthersStay
<1>12. HolderAt' /\ ChanceInv'
  BY <1>1, <1>4, <1>9, <1>10, <1>11, OthersHaveNone, HolderStep
<1>13. NotBegun'
  BY <1>1, <1>4 DEF NotBegun
<1>14. PendingAccounted'
  <2>1. Counted' = Counted
    BY <1>1, <1>5, PushFrame DEF Counted
  <2>2. Bytes(Counted)' = Bytes(Counted)
    BY <1>1, <2>1 DEF Bytes
  <2>3. ~\E u \in Threads : pc'[u] \in {"sub", "resub"}
    BY <1>3, <1>4 DEF HasChance
  <2> QED BY <1>8, <2>2, <2>3 DEF PendingAccounted
<1> QED BY <1>6, <1>7, <1>12, <1>13, <1>14 DEF SendInv

\* What is pending when the chance to send is there is in the sendlist, and the
\* slot in front is filled if its buffer is counted.
LEMMA PopFindsSlot ==
    ASSUME TypeOK, SendInv, NEW t \in Threads, pc[t] = "pop",
           slots # <<>> => Head(slots).val \notin Uncounted
    PROVE  /\ last = None /\ flow = None
           /\ slots # <<>> /\ Head(slots) = slots[1] /\ Len(slots) \in Nat \ {0}
           /\ slots[1].ready /\ slots[1].val \notin Uncounted
           /\ ~\E u \in Threads : pc[u] \in {"sub", "resub"}
<1>1. HasChance(t) /\ last = None /\ flow = None
  BY DEF HasChance, SendInv, HolderAt, HolderHas, LastFree, LastWhole
<1>2. pend > 0 /\ \A u \in Threads \ {t} : ~HasChance(u)
  BY <1>1, OneHolder
<1>3. ~\E u \in Threads : pc[u] \in {"sub", "resub"}
  BY <1>2 DEF HasChance
<1>4. PICK b \in Counted : TRUE
  BY <1>2, <1>3, PendingTells
<1>5. b \in Queued /\ b \notin Uncounted
  BY <1>1, <1>4 DEF Counted
<1>6. PICK i \in DOMAIN slots : slots[i].val = b
  BY <1>5 DEF Queued
<1>7. DOMAIN slots = 1 .. Len(slots) /\ Len(slots) \in Nat
  BY SlotTypes
<1>8. Len(slots) > 0 /\ i \in 1 .. Len(slots) /\ 1 \in DOMAIN slots
  BY <1>6, <1>7
<1>9. slots # <<>> /\ Head(slots) = slots[1]
  BY <1>8, SlotTypes
<1>10. slots[1].val \notin Uncounted
  BY <1>9
<1>11. slots[1].ready
  <2> SUFFICES ASSUME ~slots[1].ready PROVE FALSE
    OBVIOUS
  <2>1. PICK s \in Senders : pc[s] = "fill" /\ slots[1].val = buf[s]
    BY <1>8 DEF SendInv, SlotInv, UnfilledPushed
  <2> QED BY <1>10, <2>1 DEF Uncounted
<1> QED BY <1>1, <1>3, <1>7, <1>8, <1>9, <1>10, <1>11

LEMMA SendPopLast ==
    ASSUME TypeOK, SendInv, ~astray', NEW t \in Threads, PopLast(t)
    PROVE  SendInv'
<1>1. /\ pc[t] = "pop" /\ HasChance(t)
      /\ UNCHANGED <<pend, flow, size, full, strk, buf, sz, old, nsent, state>>
  BY DEF PopLast, HasChance, ioVars
<1>2. /\ last = None /\ flow = None
      /\ slots # <<>> /\ Head(slots) = slots[1] /\ Len(slots) \in Nat \ {0}
      /\ slots[1].ready /\ slots[1].val \notin Uncounted
      /\ ~\E u \in Threads : pc[u] \in {"sub", "resub"}
  <2>1. slots # <<>> => Head(slots).val \notin Uncounted
    BY DEF PopLast
  <2> QED BY <1>1, <2>1, PopFindsSlot
<1>4. Sendlist!CanPop
  BY <1>2 DEF Sendlist!CanPop
<1>5. /\ slots' = Tail(slots) /\ last' = slots[1].val /\ lastSize' = size[last']
      /\ Goto(t, "want")
  BY <1>2, <1>4 DEF PopLast, Sendlist!Pop
<1> DEFINE n == Len(slots) - 1
<1>6. /\ n \in Nat /\ Len(slots') = n /\ DOMAIN slots = 1 .. n + 1 /\ DOMAIN slots' = 1 .. n
      /\ \A i \in 1 .. n : slots'[i] = slots[i + 1]
  <2>1. slots \in Seq(Slot) /\ DOMAIN slots = 1 .. Len(slots) /\ Len(slots) \in Nat \ {0}
    BY <1>2, SlotTypes
  <2>2. /\ Tail(slots) \in Seq(Slot) /\ Len(Tail(slots)) = Len(slots) - 1
        /\ \A i \in 1 .. Len(Tail(slots)) : Tail(slots)[i] = slots[i + 1]
    BY <1>2, <2>1, HeadTailProperties
  <2>3. DOMAIN Tail(slots) = 1 .. Len(Tail(slots))
    BY <2>2, LenProperties
  <2>4. Len(slots) = n + 1 /\ n \in Nat
    BY <2>1
  <2> QED BY <1>5, <2>1, <2>2, <2>3, <2>4
<1> HIDE DEF n
<1>7. Queued = Queued' \cup {last'} /\ last' \notin Queued' /\ last' \in Iobs /\ last' # None
  <2>1. Queued' = {slots[i + 1].val : i \in 1 .. n}
    BY <1>6 DEF Queued
  <2>2. Queued = {slots[i].val : i \in 1 .. n + 1}
    BY <1>6 DEF Queued
  <2>3. \A i \in 1 .. n + 1 : i = 1 \/ (i - 1 \in 1 .. n /\ i = (i - 1) + 1)
    BY <1>6
  <2>4. \A i \in 1 .. n : i + 1 \in 1 .. n + 1 /\ i + 1 # 1
    BY <1>6
  <2>5. 1 \in 1 .. n + 1
    BY <1>6
  <2>6. Queued = Queued' \cup {last'}
    <3>1. ASSUME NEW i \in 1 .. n + 1 PROVE slots[i].val \in Queued' \cup {last'}
      BY <1>5, <2>1, <2>3
    <3>2. ASSUME NEW i \in 1 .. n PROVE slots[i + 1].val \in Queued
      BY <2>2, <2>4
    <3> QED BY <1>5, <2>1, <2>2, <2>5, <3>1, <3>2
  <2>7. last' \notin Queued'
    BY <1>5, <1>6, <2>1, <2>4, <2>5 DEF SendInv, BufferInv, QueuedOnce
  <2> QED BY <2>6, <2>7, QueuedTypes
<1>8. \A u \in Threads : pc'[u] = IF u = t THEN "want" ELSE pc[u]
  BY <1>5 DEF TypeOK, ControlTypes, Goto
<1>9. \A s \in Senders : /\ pc'[s] \in Unclaimed <=> pc[s] \in Unclaimed
                         /\ pc'[s] \in Pushing <=> pc[s] \in Pushing
                         /\ pc[s] \in Pushing => pc'[s] = pc[s]
                         /\ pc'[s] # "idle" => pc[s] # "idle"
  BY <1>1, <1>8 DEF Unclaimed, Pushing, Threads
<1>10. BufferInv'
  <2>1. OwnBuffer'
    BY <1>1, <1>9 DEF SendInv, BufferInv, OwnBuffer
  <2>2. Fresh'
    BY <1>1, <1>9 DEF SendInv, BufferInv, Fresh
  <2>3. Known'
    BY <1>1, <1>7, <1>9 DEF SendInv, BufferInv, Known
  <2>4. QueuedWhole'
    BY <1>1, <1>7 DEF SendInv, BufferInv, QueuedWhole
  <2>5. QueuedOnce'
    <3>1. \A i, j \in 1 .. n : i + 1 \in 1 .. n + 1 /\ (i + 1 = j + 1 => i = j)
      BY <1>6
    <3> QED BY <1>6, <1>7, <3>1 DEF SendInv, BufferInv, QueuedOnce
  <2> QED BY <2>1, <2>2, <2>3, <2>4, <2>5 DEF BufferInv
<1>11. SlotInv'
  <2>1. PushedThere'
    <3> SUFFICES ASSUME NEW s \in Senders, pc[s] \in Pushing
                 PROVE  \E i \in 1 .. n : slots'[i].val = buf[s] /\ (slots'[i].ready <=> pc[s] # "fill")
      BY <1>1, <1>6, <1>9 DEF SendInv, SlotInv, PushedThere
    <3>1. PICK i \in 1 .. n + 1 : slots[i].val = buf[s] /\ (slots[i].ready <=> pc[s] # "fill")
      BY <1>6 DEF SendInv, SlotInv, PushedThere
    <3>2. i # 1
      BY <1>2, <3>1 DEF Uncounted, Pushing
    <3>3. i - 1 \in 1 .. n /\ slots'[i - 1] = slots[i]
      BY <1>6, <3>1, <3>2
    <3> QED BY <3>1, <3>3
  <2>2. UnfilledPushed'
    <3> SUFFICES ASSUME NEW i \in 1 .. n, ~slots'[i].ready
                 PROVE  \E s \in Senders : pc'[s] = "fill" /\ slots'[i].val = buf[s]
      BY <1>1, <1>6 DEF UnfilledPushed
    <3>1. i + 1 \in DOMAIN slots /\ slots'[i] = slots[i + 1]
      BY <1>6
    <3>2. PICK s \in Senders : pc[s] = "fill" /\ slots[i + 1].val = buf[s]
      BY <3>1 DEF SendInv, SlotInv, UnfilledPushed
    <3> QED BY <1>9, <3>1, <3>2 DEF Pushing
  <2> QED BY <2>1, <2>2 DEF SlotInv
<1>12. lastSize' = full'[last'] /\ lastSize' \in Sizes
  BY <1>1, <1>5, <1>7 DEF SendInv, BufferInv, QueuedWhole
<1>13. LastWhole'
  BY <1>1, <1>2, <1>12 DEF SendInv, LastWhole
<1>14. ~strk /\ pend > 0 /\ state \notin {"none", "starting"}
       /\ \A u \in Threads \ {t} : ~HasChance(u)
  BY <1>1, OneHolder, PendingTells DEF SendInv, NotBegun
<1>15. \A u \in Threads \ {t} : ~(HasChance(u))'
  BY <1>1, <1>8, <1>14 DEF HasChance
<1>16. (HolderHas(t))' /\ (HasChance(t))'
  BY <1>1, <1>2, <1>7, <1>8 DEF HolderHas, HasChance, LastFree
<1>17. HolderAt' /\ ChanceInv'
  BY <1>1, <1>8, <1>14, <1>15, <1>16, HolderStep
<1>18. NotBegun'
  BY <1>1, <1>14 DEF NotBegun
<1>19. PendingAccounted'
  <2>1. Uncounted' = Uncounted
    BY <1>1, <1>9 DEF Uncounted, Unclaimed, Pushing
  <2>2. Counted' = Counted
    BY <1>2, <1>7, <2>1, QueuedTypes DEF Counted
  <2>3. Bytes(Counted)' = Bytes(Counted)
    BY <1>1, <2>2 DEF Bytes
  <2>4. ~\E u \in Threads : pc'[u] \in {"sub", "resub"}
    BY <1>2, <1>8
  <2> QED BY <1>1, <1>2, <2>3, <2>4 DEF SendInv, PendingAccounted
<1> QED BY <1>10, <1>11, <1>13, <1>17, <1>18, <1>19 DEF SendInv

-----------------------------------------------------------------------------
(* A call of send up to the chance to send.                                *)

\* A sender's step changes no other thread and touches neither the chance to
\* send nor what is being sent.
LEMMA SenderChanceFrame ==
    ASSUME TypeOK, SendInv, NEW s \in Senders, ~HasChance(s),
           NEW l \in {"enter", "fill", "size", "add", "leave"}, Goto(s, l),
           UNCHANGED <<last, lastSize, flow, strk, old, state>>,
           \A t \in Threads \ {s} : sz'[t] = sz[t],
           \A b \in Iobs : b # buf'[s] => full'[b] = full[b],
           last # None => last # buf'[s],
           pend' >= pend /\ pend' \in Int,
           pend > 0 \/ pend' = pend
    PROVE  LastWhole' /\ HolderAt' /\ ChanceInv'
<1>1. \A t \in Threads : pc'[t] = IF t = s THEN l ELSE pc[t]
  BY DEF TypeOK, ControlTypes, Goto
<1>2. \A t \in Threads : (HasChance(t))' <=> HasChance(t)
  BY <1>1 DEF HasChance
<1>3. LastWhole'
  BY <1>1 DEF SendInv, LastWhole, TypeOK, DataTypes
<1>4. HolderAt'
  BY <1>1, <1>2 DEF SendInv, HolderAt, HolderHas, LastFree
<1>5. pend' > 0 <=> pend > 0
  BY PendingTells
<1>6. ChanceInv'
  BY <1>2, <1>5 DEF SendInv, ChanceInv, SendChance
<1> QED BY <1>3, <1>4, <1>6

\* Nobody is before the end of start when a send is in progress.
LEMMA SenderHasBegun ==
    ASSUME SendInv, NEW s \in Senders, pc[s] # "idle"
    PROVE  state \notin {"none", "starting"}
  BY DEF SendInv, NotBegun

LEMMA SendSendCall ==
    ASSUME TypeOK, SendInv, NEW s \in Senders, NEW n \in Sizes, SendCall(s, n)
    PROVE  SendInv'
<1> DEFINE i == nsent[s] + 1
           b == <<s, i>>
<1>1. /\ pc[s] = "idle" /\ state = "started" /\ Goto(s, "enter")
      /\ nsent[s] \in Nat /\ MaxSend \in Nat /\ i \in 1 .. MaxSend /\ b \in Iobs
      /\ UNCHANGED <<pend, slots, last, lastSize, flow, strk, sz, old, state>>
  BY TransportAssumption DEF SendCall, TypeOK, LocalTypes, ioVars, Iobs
<1>2. /\ nsent' = [nsent EXCEPT ![s] = i] /\ buf' = [buf EXCEPT ![s] = b]
      /\ size' = [size EXCEPT ![b] = n] /\ full' = [full EXCEPT ![b] = n]
  BY DEF SendCall
<1>3. /\ \A u \in Senders : nsent'[u] = IF u = s THEN i ELSE nsent[u]
      /\ \A u \in Threads : buf'[u] = IF u = s THEN b ELSE buf[u]
      /\ \A c \in Iobs : size'[c] = IF c = b THEN n ELSE size[c]
      /\ \A c \in Iobs : full'[c] = IF c = b THEN n ELSE full[c]
      /\ \A u \in Threads : pc'[u] = IF u = s THEN "enter" ELSE pc[u]
      /\ Senders \subseteq Threads
  BY <1>1, <1>2 DEF TypeOK, ControlTypes, DataTypes, LocalTypes, Goto, Threads
<1>4. Queued' = Queued /\ Queued \subseteq Iobs
  BY <1>1, QueuedSame, QueuedTypes
<1>5. b \notin Queued \cup {last}
  <2>1. ~(i <= nsent[s])
    BY <1>1
  <2> QED BY <1>1, <2>1 DEF SendInv, BufferInv, Known
<1>6. \A u \in Senders : u # s => buf[u] # b \/ pc[u] = "idle"
  <2> SUFFICES ASSUME NEW u \in Senders, u # s, pc[u] # "idle" PROVE buf[u] # b
    OBVIOUS
  <2>1. buf[u] = <<u, nsent[u]>>
    BY DEF SendInv, BufferInv, OwnBuffer
  <2> QED BY <2>1
<1> HIDE DEF b
<1>7. OwnBuffer'
  BY <1>1, <1>3 DEF SendInv, BufferInv, OwnBuffer, b
<1>8. Fresh'
  <2> SUFFICES ASSUME NEW u \in Senders, pc'[u] \in Unclaimed
               PROVE  full'[buf'[u]] \in Sizes /\ size'[buf'[u]] = full'[buf'[u]]
    BY DEF Fresh
  <2>1. CASE u = s
    BY <1>1, <1>3, <2>1
  <2>2. CASE u # s
    <3>1. pc[u] \in Unclaimed /\ pc[u] # "idle" /\ buf'[u] = buf[u]
      BY <1>3, <2>2 DEF Unclaimed
    <3>2. buf[u] \in Iobs /\ buf[u] # b
      BY <1>6, <2>2, <3>1, BufferOfSender
    <3> QED BY <1>3, <3>1, <3>2 DEF SendInv, BufferInv, Fresh
  <2> QED BY <2>1, <2>2
<1>9. Known'
  <2> SUFFICES ASSUME NEW u \in Senders, NEW k \in 1 .. MaxSend, <<u, k>> \in Queued \cup {last}
               PROVE  k <= nsent'[u] /\ (pc'[u] \in Unclaimed => k < nsent'[u])
    BY <1>1, <1>4 DEF Known
  <2>1. k <= nsent[u] /\ (pc[u] \in Unclaimed => k < nsent[u])
    BY DEF SendInv, BufferInv, Known
  <2> QED BY <1>1, <1>3, <2>1
<1>10. QueuedWhole' /\ QueuedOnce'
  BY <1>1, <1>3, <1>4, <1>5 DEF SendInv, BufferInv, QueuedWhole, QueuedOnce
<1>11. SlotInv'
  <2>1. PushedThere'
    <3> SUFFICES ASSUME NEW u \in Senders, pc'[u] \in Pushing
                 PROVE  /\ \E k \in DOMAIN slots : slots[k].val = buf'[u] /\ (slots[k].ready <=> pc'[u] # "fill")
                        /\ pc'[u] = "add" => sz[u] = full'[buf'[u]]
      BY <1>1 DEF PushedThere
    <3>1. u # s /\ pc'[u] = pc[u] /\ buf'[u] = buf[u]
      BY <1>3 DEF Pushing
    <3>2. buf[u] \in Queued
      BY <3>1, BufferOfSender
    <3>3. full'[buf[u]] = full[buf[u]]
      BY <1>3, <1>4, <1>5, <3>2
    <3> QED BY <3>1, <3>3 DEF SendInv, SlotInv, PushedThere
  <2>2. UnfilledPushed'
    <3>1. \A u \in Senders : pc[u] = "fill" => pc'[u] = "fill" /\ buf'[u] = buf[u]
      BY <1>1, <1>3
    <3> QED BY <1>1, <3>1 DEF SendInv, SlotInv, UnfilledPushed
  <2> QED BY <2>1, <2>2 DEF SlotInv
<1>12. LastWhole' /\ HolderAt' /\ ChanceInv'
  <2>1. ~HasChance(s) /\ s \in Threads
    BY <1>1, <1>3 DEF HasChance
  <2>2. buf'[s] = b /\ last # b
    BY <1>3, <1>5, <2>1
  <2>3. pend' = pend /\ pend \in Int
    BY <1>1 DEF TypeOK, DataTypes
  <2> QED BY <1>1, <1>3, <2>1, <2>2, <2>3, SenderChanceFrame
<1>13. NotBegun'
  BY <1>1 DEF NotBegun
<1>14. PendingAccounted'
  <2>1. ASSUME NEW c \in Queued \cup {last} PROVE c \in Uncounted' <=> c \in Uncounted
    <3>1. c # b
      BY <1>5
    <3>2. \A u \in Senders : u # s => pc'[u] = pc[u] /\ buf'[u] = buf[u]
      BY <1>3
    <3>3. pc[s] \notin {"enter", "check", "claim", "fill", "size", "add"} /\ buf'[s] = b
      BY <1>1, <1>3
    <3> QED BY <3>1, <3>2, <3>3 DEF Uncounted
  <2>2. Counted' = Counted
    BY <1>1, <1>4, <2>1 DEF Counted
  <2>3. \A c \in Counted : full'[c] = full[c]
    <3>1. \A c \in Counted : c \in Iobs /\ c # b
      BY <1>4, <1>5, TransportAssumption DEF Counted, TypeOK, DataTypes
    <3> QED BY <1>3, <3>1
  <2>4. Bytes(Counted)' = Bytes(Counted)
    BY <2>2, <2>3 DEF Bytes
  <2>5. (\E u \in Threads : pc'[u] \in {"sub", "resub"}) <=> (\E u \in Threads : pc[u] \in {"sub", "resub"})
    BY <1>1, <1>3
  <2> QED BY <1>1, <2>4, <2>5 DEF SendInv, PendingAccounted
<1> QED BY <1>7, <1>8, <1>9, <1>10, <1>11, <1>12, <1>13, <1>14 DEF SendInv, BufferInv

LEMMA SendSendClaim ==
    ASSUME TypeOK, SendInv, NEW s \in Senders, SendClaim(s)
    PROVE  SendInv'
<1> DEFINE b == buf[s]
           k == Len(slots) + 1
<1>1. /\ pc[s] = "claim" /\ Goto(s, "fill")
      /\ slots' = Append(slots, [val |-> b, ready |-> FALSE])
      /\ UNCHANGED <<pend, last, lastSize, flow, size, full, strk, buf, sz, old, nsent, state>>
  BY DEF SendClaim, Sendlist!Claim, ioVars
<1>2. b \in Iobs /\ b \notin Queued \cup {last}
  BY <1>1, BufferOfSender DEF Unclaimed
<1>3. /\ Len(slots) \in Nat /\ k \in Nat /\ k > 0 /\ Len(slots') = k
      /\ DOMAIN slots = 1 .. Len(slots) /\ DOMAIN slots' = 1 .. k
      /\ \A i \in 1 .. Len(slots) : slots'[i] = slots[i]
      /\ slots'[k] = [val |-> b, ready |-> FALSE]
  <2> DEFINE e == [val |-> b, ready |-> FALSE]
  <2>1. slots \in Seq(Slot) /\ Len(slots) \in Nat /\ DOMAIN slots = 1 .. Len(slots)
    BY SlotTypes
  <2>2. e \in Slot
    BY <1>2 DEF Slot
  <2> HIDE DEF e
  <2>3. /\ Append(slots, e) \in Seq(Slot) /\ Len(Append(slots, e)) = k
        /\ \A i \in 1 .. Len(slots) : Append(slots, e)[i] = slots[i]
        /\ Append(slots, e)[k] = e
    BY <2>1, <2>2, AppendProperties
  <2>4. DOMAIN Append(slots, e) = 1 .. k
    BY <2>3, LenProperties
  <2>5. slots' = Append(slots, e)
    BY <1>1 DEF e
  <2> QED BY <2>1, <2>3, <2>4, <2>5 DEF e
<1>4. \A i \in 1 .. k : i = k \/ i \in 1 .. Len(slots)
  BY <1>3
<1>5. k \in 1 .. k /\ \A i \in 1 .. Len(slots) : i \in 1 .. k /\ i # k
  BY <1>3
<1> HIDE DEF k
<1>6. Queued' = Queued \cup {b}
  <2>1. Queued' = {slots'[i].val : i \in 1 .. k} /\ Queued = {slots[i].val : i \in 1 .. Len(slots)}
    BY <1>3 DEF Queued
  <2> QED BY <1>3, <1>4, <1>5, <2>1
<1>7. \A t \in Threads : pc'[t] = IF t = s THEN "fill" ELSE pc[t]
  BY <1>1 DEF TypeOK, ControlTypes, Goto
<1>9. \A u \in Senders : pc'[u] = IF u = s THEN "fill" ELSE pc[u]
  BY <1>7 DEF Threads
<1>10. BufferInv'
  <2>1. OwnBuffer'
    BY <1>1, <1>9 DEF SendInv, BufferInv, OwnBuffer
  <2>2. Fresh'
    BY <1>1, <1>9 DEF SendInv, BufferInv, Fresh, Unclaimed
  <2>3. Known'
    <3> SUFFICES ASSUME NEW u \in Senders, NEW i \in 1 .. MaxSend, <<u, i>> \in Queued \cup {b, last}
                 PROVE  i <= nsent[u] /\ (pc'[u] \in Unclaimed => i < nsent[u])
      BY <1>1, <1>6 DEF Known
    <3>1. CASE <<u, i>> = b
      <4>1. b = <<s, nsent[s]>> /\ nsent[s] \in Nat
        BY <1>1 DEF SendInv, BufferInv, OwnBuffer, TypeOK, LocalTypes
      <4>2. u = s /\ i = nsent[s]
        BY <3>1, <4>1
      <4> QED BY <1>9, <4>1, <4>2 DEF Unclaimed
    <3>2. CASE <<u, i>> # b
      BY <1>9, <3>2 DEF SendInv, BufferInv, Known, Unclaimed
    <3> QED BY <3>1, <3>2
  <2>4. QueuedWhole'
    BY <1>1, <1>6 DEF SendInv, BufferInv, QueuedWhole, Fresh, Unclaimed
  <2>5. QueuedOnce'
    <3>1. \A i \in 1 .. Len(slots) : slots[i].val \in Queued
      BY <1>3 DEF Queued
    <3> HIDE DEF b
    <3> QED BY <1>1, <1>2, <1>3, <1>4, <1>6, <3>1 DEF SendInv, BufferInv, QueuedOnce
  <2> QED BY <2>1, <2>2, <2>3, <2>4, <2>5 DEF BufferInv
<1>11. SlotInv'
  <2>1. PushedThere'
    <3> SUFFICES ASSUME NEW u \in Senders, pc'[u] \in Pushing
                 PROVE  /\ \E i \in 1 .. k : slots'[i].val = buf[u] /\ (slots'[i].ready <=> pc'[u] # "fill")
                        /\ pc'[u] = "add" => sz[u] = full[buf[u]]
      BY <1>1, <1>3 DEF PushedThere
    <3>1. CASE u = s
      BY <1>3, <1>5, <1>9, <3>1
    <3>2. CASE u # s
      <4>1. pc'[u] = pc[u]
        BY <1>9, <3>2
      <4>2. /\ \E i \in 1 .. Len(slots) : slots[i].val = buf[u] /\ (slots[i].ready <=> pc[u] # "fill")
            /\ pc[u] = "add" => sz[u] = full[buf[u]]
        BY <1>3, <4>1 DEF SendInv, SlotInv, PushedThere
      <4> QED BY <1>3, <1>5, <4>1, <4>2
    <3> QED BY <3>1, <3>2
  <2>2. UnfilledPushed'
    <3> SUFFICES ASSUME NEW i \in 1 .. k, ~slots'[i].ready
                 PROVE  \E u \in Senders : pc'[u] = "fill" /\ slots'[i].val = buf[u]
      BY <1>1, <1>3 DEF UnfilledPushed
    <3>1. CASE i = k
      BY <1>3, <1>9, <3>1
    <3>2. CASE i \in 1 .. Len(slots)
      <4>1. PICK u \in Senders : pc[u] = "fill" /\ slots[i].val = buf[u]
        BY <1>3, <3>2 DEF SendInv, SlotInv, UnfilledPushed
      <4> QED BY <1>3, <1>9, <3>2, <4>1
    <3> QED BY <1>4, <3>1, <3>2
  <2> QED BY <2>1, <2>2 DEF SlotInv
<1>12. LastWhole' /\ HolderAt' /\ ChanceInv'
  <2>1. ~HasChance(s) /\ buf'[s] = b /\ last # b
    BY <1>1, <1>2 DEF HasChance
  <2>2. pend' = pend /\ pend \in Int
    BY <1>1 DEF TypeOK, DataTypes
  <2> QED BY <1>1, <2>1, <2>2, SenderChanceFrame
<1>13. NotBegun'
  BY <1>1, SenderHasBegun DEF NotBegun
<1>14. PendingAccounted'
  <2>1. Uncounted' = Uncounted
    <3>1. \A u \in Senders : pc'[u] \in {"enter", "check", "claim", "fill", "size", "add"}
                         <=> pc[u] \in {"enter", "check", "claim", "fill", "size", "add"}
      BY <1>1, <1>9
    <3> QED BY <1>1, <3>1 DEF Uncounted
  <2>2. b \in Uncounted
    BY <1>1 DEF Uncounted
  <2>3. Counted' = Counted
    BY <1>1, <1>6, <2>1, <2>2 DEF Counted
  <2>4. Bytes(Counted)' = Bytes(Counted)
    BY <1>1, <2>3 DEF Bytes
  <2>5. (\E u \in Threads : pc'[u] \in {"sub", "resub"}) <=> (\E u \in Threads : pc[u] \in {"sub", "resub"})
    BY <1>1, <1>7
  <2> QED BY <1>1, <2>4, <2>5 DEF SendInv, PendingAccounted
<1> QED BY <1>10, <1>11, <1>12, <1>13, <1>14 DEF SendInv

LEMMA SendSendFill ==
    ASSUME TypeOK, SendInv, NEW s \in Senders, SendFill(s)
    PROVE  SendInv'
<1> DEFINE n == Len(slots)
<1>1. /\ pc[s] = "fill" /\ Goto(s, "size")
      /\ UNCHANGED <<pend, last, lastSize, flow, size, full, strk, buf, sz, old, nsent, state>>
  BY DEF SendFill, ioVars
<1>2. PICK k \in DOMAIN slots : slots[k].val = buf[s] /\ slots' = [slots EXCEPT ![k].ready = TRUE]
  BY DEF SendFill, Sendlist!Fill
<1>4. /\ k \in 1 .. n /\ Len(slots') = n
      /\ DOMAIN slots = 1 .. n /\ DOMAIN slots' = 1 .. n
      /\ \A j \in 1 .. n : slots'[j].val = slots[j].val
      /\ \A j \in 1 .. n : j # k => slots'[j].ready = slots[j].ready
      /\ slots'[k].ready
  <2>1. slots \in Seq(Slot) /\ n \in Nat /\ DOMAIN slots = 1 .. n /\ k \in 1 .. n
    BY <1>2, SlotTypes
  <2> DEFINE e == [slots[k] EXCEPT !.ready = TRUE]
  <2>2. slots[k] \in Slot
    BY <2>1, ElementOfSeq
  <2>3. e \in Slot /\ e.val = slots[k].val /\ e.ready = TRUE
    BY <2>2 DEF Slot
  <2>4. slots' = [slots EXCEPT ![k] = e]
    BY <1>2
  <2> HIDE DEF e
  <2>5. /\ slots' \in Seq(Slot) /\ Len(slots') = n
        /\ \A j \in 1 .. n : slots'[j] = IF j = k THEN e ELSE slots[j]
    BY <2>1, <2>3, <2>4, ExceptSeq
  <2>6. DOMAIN slots' = 1 .. n
    BY <2>5, LenProperties
  <2> QED BY <2>1, <2>3, <2>5, <2>6
<1> HIDE DEF n
<1>5. Queued' = Queued
  BY <1>4 DEF Queued
<1>6. \A t \in Threads : pc'[t] = IF t = s THEN "size" ELSE pc[t]
  BY <1>1 DEF TypeOK, ControlTypes, Goto
<1>7. /\ \A u \in Senders : pc'[u] = IF u = s THEN "size" ELSE pc[u]
      /\ \A u \in Senders : (u # s /\ pc[u] \in Pushing) => buf[u] # buf[s]
  <2>1. \A u \in Senders : pc[u] # "idle" => buf[u] = <<u, nsent[u]>>
    BY DEF SendInv, BufferInv, OwnBuffer
  <2> QED BY <1>1, <1>6, <2>1 DEF Pushing, Threads
<1>8. BufferInv'
  <2>1. OwnBuffer'
    BY <1>1, <1>7 DEF SendInv, BufferInv, OwnBuffer
  <2>2. Fresh'
    BY <1>1, <1>7 DEF SendInv, BufferInv, Fresh, Unclaimed
  <2>3. Known'
    BY <1>1, <1>5, <1>7 DEF SendInv, BufferInv, Known, Unclaimed
  <2>4. QueuedWhole' /\ QueuedOnce'
    BY <1>1, <1>4, <1>5 DEF SendInv, BufferInv, QueuedWhole, QueuedOnce
  <2> QED BY <2>1, <2>2, <2>3, <2>4 DEF BufferInv
<1>9. SlotInv'
  <2>1. PushedThere'
    <3> SUFFICES ASSUME NEW u \in Senders, pc'[u] \in Pushing
                 PROVE  /\ \E i \in 1 .. n : slots'[i].val = buf[u] /\ (slots'[i].ready <=> pc'[u] # "fill")
                        /\ pc'[u] = "add" => sz[u] = full[buf[u]]
      BY <1>1, <1>4 DEF PushedThere
    <3>1. CASE u = s
      BY <1>2, <1>4, <1>7, <3>1
    <3>2. CASE u # s
      <4>1. pc'[u] = pc[u] /\ buf[u] # buf[s]
        BY <1>7, <3>2
      <4>2. PICK i \in 1 .. n : slots[i].val = buf[u] /\ (slots[i].ready <=> pc[u] # "fill")
        BY <1>4, <4>1 DEF SendInv, SlotInv, PushedThere
      <4>3. i # k
        BY <1>2, <4>1, <4>2
      <4>4. pc[u] = "add" => sz[u] = full[buf[u]]
        BY <4>1 DEF SendInv, SlotInv, PushedThere
      <4> QED BY <1>4, <4>1, <4>2, <4>3, <4>4
    <3> QED BY <3>1, <3>2
  <2>2. UnfilledPushed'
    <3> SUFFICES ASSUME NEW i \in 1 .. n, ~slots'[i].ready
                 PROVE  \E u \in Senders : pc'[u] = "fill" /\ slots'[i].val = buf[u]
      BY <1>1, <1>4 DEF UnfilledPushed
    <3>1. i # k /\ ~slots[i].ready
      BY <1>4
    <3>2. PICK u \in Senders : pc[u] = "fill" /\ slots[i].val = buf[u]
      BY <1>4, <3>1 DEF SendInv, SlotInv, UnfilledPushed
    <3>3. u # s
      BY <1>2, <1>4, <3>1, <3>2 DEF SendInv, BufferInv, QueuedOnce
    <3> QED BY <1>4, <1>7, <3>2, <3>3
  <2> QED BY <2>1, <2>2 DEF SlotInv
<1>10. LastWhole' /\ HolderAt' /\ ChanceInv'
  <2>1. ~HasChance(s) /\ buf'[s] = buf[s] /\ last # buf[s]
    BY <1>1, BufferOfSender DEF HasChance, Pushing
  <2>2. pend' = pend /\ pend \in Int
    BY <1>1 DEF TypeOK, DataTypes
  <2> QED BY <1>1, <2>1, <2>2, SenderChanceFrame
<1>11. NotBegun'
  BY <1>1, SenderHasBegun DEF NotBegun
<1>12. PendingAccounted'
  <2>1. Uncounted' = Uncounted
    <3>1. \A u \in Senders : pc'[u] \in {"enter", "check", "claim", "fill", "size", "add"}
                         <=> pc[u] \in {"enter", "check", "claim", "fill", "size", "add"}
      BY <1>1, <1>7
    <3> QED BY <1>1, <3>1 DEF Uncounted
  <2>2. Counted' = Counted
    BY <1>1, <1>5, <2>1 DEF Counted
  <2>3. Bytes(Counted)' = Bytes(Counted)
    BY <1>1, <2>2 DEF Bytes
  <2>4. (\E u \in Threads : pc'[u] \in {"sub", "resub"}) <=> (\E u \in Threads : pc[u] \in {"sub", "resub"})
    BY <1>1, <1>6
  <2> QED BY <1>1, <2>3, <2>4 DEF SendInv, PendingAccounted
<1> QED BY <1>8, <1>9, <1>10, <1>11, <1>12 DEF SendInv

\* The rest of the push: the size is read and added.
LEMMA PushRest ==
    ASSUME TypeOK, SendInv, NEW s \in Senders, pc[s] \in {"size", "add"},
           NEW l \in {"add", "leave", "pop"}, Goto(s, l),
           UNCHANGED <<slots, last, size, full, buf, nsent>>,
           \A u \in Senders \ {s} : sz'[u] = sz[u],
           l = "add" => sz'[s] = full[buf[s]]
    PROVE  BufferInv' /\ SlotInv'
<1>1. /\ Queued' = Queued
      /\ \A u \in Senders : pc'[u] = IF u = s THEN l ELSE pc[u]
  BY QueuedSame DEF TypeOK, ControlTypes, Goto, Threads
<1>2. BufferInv'
  <2>1. OwnBuffer'
    BY <1>1 DEF SendInv, BufferInv, OwnBuffer
  <2>2. Fresh'
    BY <1>1 DEF SendInv, BufferInv, Fresh, Unclaimed
  <2>3. Known'
    BY <1>1 DEF SendInv, BufferInv, Known, Unclaimed
  <2>4. QueuedWhole' /\ QueuedOnce'
    BY <1>1 DEF SendInv, BufferInv, QueuedWhole, QueuedOnce
  <2> QED BY <2>1, <2>2, <2>3, <2>4 DEF BufferInv
<1>3. SlotInv'
  <2>1. PushedThere'
    <3> SUFFICES ASSUME NEW u \in Senders, pc'[u] \in Pushing
                 PROVE  /\ \E i \in DOMAIN slots : slots[i].val = buf[u] /\ (slots[i].ready <=> pc'[u] # "fill")
                        /\ pc'[u] = "add" => sz'[u] = full[buf[u]]
      BY DEF PushedThere
    <3>1. CASE u = s
      <4>1. PICK i \in DOMAIN slots : slots[i].val = buf[s] /\ slots[i].ready
        BY DEF SendInv, SlotInv, PushedThere, Pushing
      <4>2. pc'[u] = "add"
        BY <1>1, <3>1 DEF Pushing
      <4> QED BY <1>1, <3>1, <4>1, <4>2
    <3>2. CASE u # s
      BY <1>1, <3>2 DEF SendInv, SlotInv, PushedThere
    <3> QED BY <3>1, <3>2
  <2>2. UnfilledPushed'
    <3>1. \A u \in Senders : pc[u] = "fill" => pc'[u] = "fill"
      BY <1>1
    <3> QED BY <3>1 DEF SendInv, SlotInv, UnfilledPushed
  <2> QED BY <2>1, <2>2 DEF SlotInv
<1> QED BY <1>2, <1>3

LEMMA SendSendReadSize ==
    ASSUME TypeOK, SendInv, NEW s \in Senders, SendReadSize(s)
    PROVE  SendInv'
<1>1. /\ pc[s] = "size" /\ Goto(s, "add") /\ sz' = [sz EXCEPT ![s] = size[buf[s]]]
      /\ UNCHANGED <<pend, slots, last, lastSize, flow, size, full, strk, buf, old, nsent, state>>
      /\ \A t \in Threads \ {s} : sz'[t] = sz[t]
      /\ Senders \subseteq Threads
  BY DEF SendReadSize, sendVars, ioVars, TypeOK, LocalTypes, Threads
<1>2. buf[s] \in Queued /\ buf[s] # last
  BY <1>1, BufferOfSender DEF Pushing
<1>3. sz'[s] = full[buf[s]]
  BY <1>1, <1>2 DEF TypeOK, DataTypes, LocalTypes, Threads, SendInv, BufferInv, QueuedWhole
<1>4. BufferInv' /\ SlotInv'
  BY <1>1, <1>3, PushRest
<1>5. LastWhole' /\ HolderAt' /\ ChanceInv'
  <2>1. ~HasChance(s) /\ buf'[s] = buf[s]
    BY <1>1 DEF HasChance
  <2>2. pend' = pend /\ pend \in Int
    BY <1>1 DEF TypeOK, DataTypes
  <2> QED BY <1>1, <1>2, <2>1, <2>2, SenderChanceFrame
<1>6. NotBegun'
  BY <1>1, SenderHasBegun DEF NotBegun
<1>7. PendingAccounted'
  <2>0. \A u \in Threads : pc'[u] = IF u = s THEN "add" ELSE pc[u]
    BY <1>1 DEF TypeOK, ControlTypes, Goto
  <2>1. Uncounted' = Uncounted
    <3>1. \A u \in Senders : pc'[u] \in {"enter", "check", "claim", "fill", "size", "add"}
                         <=> pc[u] \in {"enter", "check", "claim", "fill", "size", "add"}
      BY <1>1, <2>0 DEF Threads
    <3> QED BY <1>1, <3>1 DEF Uncounted
  <2>2. Counted' = Counted
    BY <1>1, <2>1, QueuedSame DEF Counted
  <2>3. Bytes(Counted)' = Bytes(Counted)
    BY <1>1, <2>2 DEF Bytes
  <2>4. (\E u \in Threads : pc'[u] \in {"sub", "resub"}) <=> (\E u \in Threads : pc[u] \in {"sub", "resub"})
    BY <1>1, <2>0
  <2> QED BY <1>1, <2>3, <2>4 DEF SendInv, PendingAccounted
<1> QED BY <1>4, <1>5, <1>6, <1>7 DEF SendInv

LEMMA SendSendAdd ==
    ASSUME TypeOK, SendInv, NEW s \in Senders, SendAdd(s)
    PROVE  SendInv'
<1> DEFINE b == buf[s]
           l == IF pend > 0 THEN "leave" ELSE "pop"
<1>1. /\ pc[s] = "add" /\ Goto(s, l) /\ pend' = pend + sz[s]
      /\ UNCHANGED <<slots, last, lastSize, flow, size, full, strk, buf, sz, old, nsent, state>>
  BY DEF SendAdd, ioVars
<1>2. b \in Queued /\ b # last /\ b \in Iobs
  BY <1>1, BufferOfSender DEF Pushing
<1>3. sz[s] = full[b] /\ full[b] \in Sizes
  BY <1>1, <1>2 DEF SendInv, SlotInv, PushedThere, Pushing, BufferInv, QueuedWhole
<1>4. sz[s] \in Nat /\ sz[s] > 0
  <2>1. \A n \in Sizes : n \in Nat /\ n > 0
    BY TransportAssumption
  <2> QED BY <1>3, <2>1
<1>5. \A t \in Threads : pc'[t] = IF t = s THEN l ELSE pc[t]
  BY <1>1 DEF TypeOK, ControlTypes, Goto
<1>6. BufferInv' /\ SlotInv'
  <2>1. l \in {"add", "leave", "pop"} /\ l # "add"
    OBVIOUS
  <2> HIDE DEF l
  <2> QED BY <1>1, <2>1, PushRest
<1>7. pend \in Nat /\ pend' \in Nat /\ pend' > 0 /\ pend' >= pend
  <2>1. pend \in Nat
    BY PendingTells
  <2> QED BY <1>1, <1>4, <2>1
<1>8. s \in Threads /\ ~HasChance(s) /\ state \notin {"none", "starting"}
  BY <1>1, SenderHasBegun DEF HasChance, Threads
<1>9. LastWhole' /\ HolderAt' /\ ChanceInv'
  <2>1. CASE pend > 0
    BY <1>1, <1>2, <1>7, <1>8, <2>1, SenderChanceFrame
  <2>2. CASE ~(pend > 0)
    <3>1. pend = 0
      BY <1>7, <2>2
    <3>2. last = None /\ flow = None /\ ~strk
      BY <1>8, <3>1, PendingTells, OneHolder
    <3>3. OthersStay(s)
      BY <1>1, <1>5 DEF OthersStay
    <3>4. pc'[s] = "pop"
      BY <1>5, <1>8, <2>2
    <3>5. (HolderHas(s))' /\ (HasChance(s))'
      BY <1>1, <3>2, <3>4 DEF HolderHas, HasChance
    <3>6. HolderAt' /\ ChanceInv'
      BY <1>1, <1>7, <1>8, <3>1, <3>2, <3>3, <3>5, OthersHaveNone, HolderStep
    <3>7. LastWhole'
      BY <1>1, <1>5, <3>2 DEF SendInv, LastWhole
    <3> QED BY <3>6, <3>7
  <2> QED BY <2>1, <2>2
<1>10. NotBegun'
  BY <1>1, <1>8 DEF NotBegun
<1>11. PendingAccounted'
  <2>1. \A u \in Senders : /\ u # s => pc'[u] = pc[u]
                           /\ pc'[s] \notin {"enter", "check", "claim", "fill", "size", "add"}
    BY <1>5 DEF Threads
  <2>2. \A u \in Senders : (u # s /\ pc[u] # "idle") => buf[u] # b
    <3>1. b = <<s, nsent[s]>>
      BY <1>1 DEF SendInv, BufferInv, OwnBuffer
    <3>2. \A u \in Senders : pc[u] # "idle" => buf[u] = <<u, nsent[u]>>
      BY DEF SendInv, BufferInv, OwnBuffer
    <3> QED BY <3>1, <3>2
  <2>3. Uncounted' = Uncounted \ {b} /\ b \in Uncounted
    <3> HIDE DEF b
    <3>1. b = buf[s]
      BY DEF b
    <3> QED BY <1>1, <2>1, <2>2, <3>1 DEF Uncounted
  <2>4. Counted' = Counted \cup {b} /\ b \notin Counted
    BY <1>1, <1>2, <2>3, QueuedSame, TransportAssumption DEF Counted
  <2>5. Cardinality(Bytes(Counted \cup {b})) = Cardinality(Bytes(Counted)) + full[b]
    BY <1>3, <1>4, <2>4, CountedTypes, BytesAdd
  <2>6. Bytes(Counted)' = Bytes(Counted \cup {b})
    BY <1>1, <2>4 DEF Bytes
  <2>7. (\E u \in Threads : pc'[u] \in {"sub", "resub"}) <=> (\E u \in Threads : pc[u] \in {"sub", "resub"})
    BY <1>1, <1>5
  <2> DEFINE m == IF \E u \in Threads : pc[u] \in {"sub", "resub"} THEN lastSize ELSE 0
             n == Cardinality(Bytes(Counted))
  <2>8. m \in Nat /\ n \in Nat /\ pend = n + m
    <3>1. n \in Nat
      BY CountedTypes, BytesFinite
    <3> QED BY <3>1 DEF SendInv, PendingAccounted, TypeOK, DataTypes
  <2>9. pend' = (n + full[b]) + m
    <3> HIDE DEF m, n
    <3> QED BY <1>1, <1>3, <1>4, <2>8
  <2> QED BY <1>1, <2>5, <2>6, <2>7, <2>9 DEF PendingAccounted
<1> QED BY <1>6, <1>9, <1>10, <1>11 DEF SendInv

-----------------------------------------------------------------------------
(* All steps keep the invariant of the sending half.                       *)

\* Steps of the other threads, and of a thread outside __send_once.
LEMMA SendPlain ==
    ASSUME TypeOK, SendInv, NEW t \in Threads, PlainMove(t), UNCHANGED sendData, StateMoves,
           NEW l, Goto(t, l)
    PROVE  SendInv'
<1>1. \A u \in Threads : pc'[u] = pc[u] \/ PlainMove(u)
  BY DEF TypeOK, ControlTypes, Goto
<1> QED BY <1>1, PlainStep

LEMMA SendStill ==
    ASSUME TypeOK, SendInv, UNCHANGED sendData, StateMoves, UNCHANGED pc
    PROVE  SendInv'
  BY PlainStep

LEMMA SendSenders ==
    ASSUME TypeOK, SendInv, NEW s \in Senders,
           SendEnter(s) \/ SendCheck(s) \/ SendLeave(s) \/ SenderFails(s)
    PROVE  SendInv'
<1>0. s \in Threads /\ pc \in [Threads -> SendLabels]
  BY DEF Threads, TypeOK, ControlTypes
<1>1. UNCHANGED sendData
  BY DEF SendEnter, SendCheck, SendLeave, SenderFails, sendData, sendVars, ioVars
<1>2. StateMoves
  BY DEF SendEnter, SendCheck, SendLeave, SenderFails, StateMoves, CasState, CasStateFails
<1>3. \E l \in {"check", "claim", "leave", "idle", "post"} : Goto(s, l)
  BY DEF SendEnter, SendCheck, SendLeave, SenderFails
<1>4. PICK l \in {"check", "claim", "leave", "idle", "post"} : Goto(s, l)
  BY <1>3
<1>5. pc'[s] = l
  BY <1>0, <1>4 DEF Goto
<1>6. PlainMove(s)
  <2>1. CASE SendEnter(s)
    BY <1>0, <1>5, <2>1 DEF SendEnter, Goto, PlainMove, Plain, Pushing, Unclaimed, HasChance
  <2>2. CASE SendCheck(s)
    BY <1>0, <1>5, <2>2 DEF SendCheck, Goto, PlainMove, Plain, Pushing, Unclaimed, HasChance
  <2>3. CASE SendLeave(s)
    BY <1>0, <1>5, <2>3 DEF SendLeave, Goto, PlainMove, Plain, Pushing, Unclaimed, HasChance
  <2>4. CASE SenderFails(s)
    BY <1>0, <1>5, <2>4 DEF SenderFails, Goto, PlainMove, Plain, Pushing, Unclaimed, HasChance,
                            CasState, CasStateFails
  <2> QED BY <2>1, <2>2, <2>3, <2>4
<1> QED BY <1>0, <1>1, <1>2, <1>4, <1>6, SendPlain

LEMMA SendSendPolling ==
    ASSUME TypeOK, SendInv, SendPolling, ~SendEvent
    PROVE  SendInv'
<1>0. SendPoller \in Threads /\ SendPoller \notin Senders /\ pc \in [Threads -> SendLabels]
  BY TransportAssumption DEF Threads, TypeOK, ControlTypes
<1>1. UNCHANGED sendData
  BY DEF SendPolling, ChannelEvent, SendFails, TriggerDisconnected, TriggerStopped,
         FinalCallback, sendData, sendVars, ioVars
<1>2. StateMoves
  BY DEF SendPolling, ChannelEvent, SendFails, TriggerDisconnected, TriggerStopped,
         FinalCallback, StateMoves, CasState, CasStateFails
<1>3. \E l \in {"trigger", "idle", "end", "disconnected_cb", "stopped_cb"} : Goto(SendPoller, l)
  BY DEF SendPolling, ChannelEvent, SendFails, TriggerDisconnected, TriggerStopped, FinalCallback
<1>4. PICK l \in {"trigger", "idle", "end", "disconnected_cb", "stopped_cb"} : Goto(SendPoller, l)
  BY <1>3
<1>5. pc'[SendPoller] \in Plain
  BY <1>0, <1>4 DEF Goto, Plain
<1>6. PlainMove(SendPoller)
  <2>1. pc[SendPoller] \in {"idle", "trigger", "end", "disconnected_cb", "stopped_cb"}
        \/ (pc[SendPoller] = "fault" /\ state' # "started")
    BY DEF SendPolling, ChannelEvent, SendFails, TriggerDisconnected, TriggerStopped,
           FinalCallback, CasState, CasStateFails
  <2> QED BY <1>0, <1>5, <2>1 DEF PlainMove, Pushing, HasChance
<1> QED BY <1>0, <1>1, <1>2, <1>4, <1>6, SendPlain

LEMMA SendOthers ==
    ASSUME TypeOK, SendInv, Start \/ StartDone \/ Stopping \/ Reading \/ PeerCloses \/ UNCHANGED vars
    PROVE  SendInv'
<1>1. UNCHANGED sendData /\ UNCHANGED pc /\ StateMoves
  <2>1. CASE Start \/ StartDone
    BY <2>1 DEF Start, StartDone, sendData, sendVars, ioVars, localVars, StateMoves, CasState
  <2>2. CASE Stopping
    BY <2>2 DEF Stopping, Stop, StopCas, StopWait, StopWaitEnds, StopClose, StopDisconnecting,
                sendData, sendVars, ioVars, localVars, StateMoves, CasState, CasStateFails
  <2>3. CASE Reading
    <3>1. UNCHANGED sendData /\ UNCHANGED pc
      BY <2>3 DEF Reading, AsyncRead, AsyncReadEnter, AsyncReadCheck, AsyncReadChange,
            AsyncReadTrack, AsyncReadLeave, ReadEvent, ReadWait, Read, ReadAgain, ReadCallback,
            ReadFails, ReadFinalCallback, sendData, sendVars, ioVars, readLocal
    <3>2. StateMoves
      BY <2>3 DEF Reading, AsyncRead, AsyncReadEnter, AsyncReadCheck, AsyncReadChange,
            AsyncReadTrack, AsyncReadLeave, ReadEvent, ReadWait, Read, ReadAgain, ReadCallback,
            ReadFails, ReadFinalCallback, StateMoves, CasState, CasStateFails
    <3> QED BY <3>1, <3>2
  <2>4. CASE PeerCloses
    BY <2>4 DEF PeerCloses, sendData, sendVars, ioVars, localVars, StateMoves
  <2>5. CASE UNCHANGED vars
    BY <2>5 DEF vars, sendData, StateMoves
  <2> QED BY <2>1, <2>2, <2>3, <2>4, <2>5
<1> QED BY <1>1, SendStill

LEMMA NextSendInv ==
    ASSUME TypeOK, SendInv, [Next]_vars, ~astray'
    PROVE  SendInv'
<1>1. CASE Start \/ StartDone \/ Stopping \/ Reading \/ PeerCloses \/ UNCHANGED vars
  BY <1>1, SendOthers
<1>2. ASSUME NEW s \in Senders, Send(s) PROVE SendInv'
  <2>1. CASE SendEnter(s) \/ SendCheck(s) \/ SendLeave(s) \/ SenderFails(s)
    BY <2>1, SendSenders
  <2>2. CASE \E n \in Sizes : SendCall(s, n)
    BY <2>2, SendSendCall
  <2>3. CASE SendClaim(s)
    BY <2>3, SendSendClaim
  <2>4. CASE SendFill(s)
    BY <2>4, SendSendFill
  <2>5. CASE SendReadSize(s)
    BY <2>5, SendSendReadSize
  <2>6. CASE SendAdd(s)
    BY <2>6, SendSendAdd
  <2> QED BY <1>2, <2>1, <2>2, <2>3, <2>4, <2>5, <2>6 DEF Send
<1>3. ASSUME NEW t \in Threads, SendOnce(t) PROVE SendInv'
  BY <1>3, SendPopLast, SendWantToSend, SendNetSend, SendNetSendNothing, SendPendSub,
     SendPendCompare, SendStartSendTracker DEF SendOnce
<1>4. CASE SendPolling
  BY <1>4, SendSendEvent, SendSendPolling
<1> QED BY <1>1, <1>2, <1>3, <1>4 DEF Next

-----------------------------------------------------------------------------
(* Types.                                                                  *)

\* The control types are those of EndInv and OptInv; the other variables are
\* taken group by group.
LEMMA EndInvTypes ==
    ASSUME EndInv, OptInv
    PROVE  ControlTypes
<1>1. opt = Cardinality(Busy) + ReadBusy /\ Cardinality(Busy) \in Nat /\ ReadBusy \in Nat
  BY BusyIsFinite DEF OptInv, OptCounted, ReadBusy
<1>2. opt \in Nat
  BY <1>1
<1> QED BY <1>2 DEF ControlTypes, EndInv, EndTypes, StopLabels, StopWon, StopEnds

\* A sender in a call has a buffer, whatever else has happened.
LEMMA BufferOwned ==
    ASSUME TypeOK, OwnBuffer, NEW s \in Senders, pc[s] # "idle"
    PROVE  buf[s] \in Iobs
<1>1. buf[s] = <<s, nsent[s]>> /\ nsent[s] \in 1 .. MaxSend
  BY TransportAssumption DEF OwnBuffer, TypeOK, LocalTypes
<1> QED BY <1>1 DEF Iobs

LEMMA OwnBufferKept ==
    ASSUME TypeOK, OwnBuffer, [Next]_vars
    PROVE  OwnBuffer'
<1>0. /\ pc \in [Threads -> SendLabels] /\ Senders \subseteq Threads /\ SendPoller \notin Senders
      /\ buf \in [Threads -> Iobs \cup {None}] /\ nsent \in [Senders -> 0 .. MaxSend]
  BY TransportAssumption DEF TypeOK, ControlTypes, LocalTypes, Threads
<1>1. ASSUME UNCHANGED <<buf, nsent>>, \A s \in Senders : pc'[s] # "idle" => pc[s] # "idle"
      PROVE  OwnBuffer'
  BY <1>1 DEF OwnBuffer
<1>2. CASE Start \/ StartDone \/ Stopping \/ Reading \/ PeerCloses \/ UNCHANGED vars
  <2>1. UNCHANGED <<buf, nsent, pc>>
    BY <1>2 DEF Start, StartDone, Stopping, Stop, StopCas, StopWait, StopWaitEnds, StopClose,
          StopDisconnecting, Reading, AsyncRead, AsyncReadEnter, AsyncReadCheck, AsyncReadChange,
          AsyncReadTrack, AsyncReadLeave, ReadEvent, ReadWait, Read, ReadAgain, ReadCallback,
          ReadFails, ReadFinalCallback, PeerCloses, vars, localVars, readLocal
  <2> QED BY <1>1, <2>1
<1>3. ASSUME NEW s \in Senders, Send(s) PROVE OwnBuffer'
  <2>1. ASSUME NEW n \in Sizes, SendCall(s, n) PROVE OwnBuffer'
    <3>1. nsent[s] \in Nat
      BY <1>0, TransportAssumption
    <3>2. \A u \in Senders : /\ nsent'[u] = IF u = s THEN nsent[s] + 1 ELSE nsent[u]
                             /\ buf'[u] = IF u = s THEN <<s, nsent[s] + 1>> ELSE buf[u]
                             /\ pc'[u] = IF u = s THEN "enter" ELSE pc[u]
      BY <1>0, <2>1 DEF SendCall, Goto
    <3> QED BY <3>1, <3>2 DEF OwnBuffer
  <2>2. CASE SendEnter(s) \/ SendCheck(s) \/ SendClaim(s) \/ SendFill(s) \/ SendReadSize(s)
             \/ SendAdd(s) \/ SenderFails(s) \/ SendLeave(s)
    <3>1. UNCHANGED <<buf, nsent>> /\ pc[s] # "idle" /\ \E l : Goto(s, l)
      BY <2>2 DEF SendEnter, SendCheck, SendClaim, SendFill, SendReadSize, SendAdd, SenderFails,
            SendLeave
    <3>2. \A u \in Senders : u # s => pc'[u] = pc[u]
      BY <1>0, <3>1 DEF Goto
    <3> QED BY <1>1, <3>1, <3>2
  <2> QED BY <1>3, <2>1, <2>2 DEF Send
<1>4. ASSUME NEW t \in Threads, SendOnce(t) PROVE OwnBuffer'
  <2>1. UNCHANGED <<buf, nsent>> /\ pc[t] # "idle" /\ \E l : Goto(t, l)
    BY <1>4 DEF SendOnce, PopLast, WantToSend, NetSend, NetSendNothing, PendSub, PendCompare,
          SendMoreIf, StartSendTracker, Finish
  <2>2. \A u \in Senders : u # t => pc'[u] = pc[u]
    BY <1>0, <2>1 DEF Goto
  <2> QED BY <1>1, <2>1, <2>2
<1>5. CASE SendPolling
  <2>1. UNCHANGED <<buf, nsent>> /\ \E l : Goto(SendPoller, l)
    BY <1>5 DEF SendPolling, SendEvent, ChannelEvent, SendFails, TriggerDisconnected,
          TriggerStopped, FinalCallback
  <2>2. \A u \in Senders : pc'[u] = pc[u]
    BY <1>0, <2>1 DEF Goto
  <2> QED BY <1>1, <2>1, <2>2
<1> QED BY <1>2, <1>3, <1>4, <1>5 DEF Next

\* What has gone astray stays so.
LEMMA AstrayStays ==
    ASSUME TypeOK, [Next]_vars
    PROVE  astray' \in BOOLEAN /\ (astray => astray')
<1>0. astray \in BOOLEAN
  BY DEF TypeOK, DataTypes
<1>1. astray' = astray \/ \E t \in Threads : PopLast(t) \/ PendCompare(t)
  BY DEF Next, Start, StartDone, Stopping, Stop, StopCas, StopWait, StopWaitEnds, StopClose,
         StopDisconnecting, Reading, AsyncRead, AsyncReadEnter, AsyncReadCheck, AsyncReadChange,
         AsyncReadTrack, AsyncReadLeave, ReadEvent, ReadWait, Read, ReadAgain, ReadCallback,
         ReadFails, ReadFinalCallback, PeerCloses, SendPolling, SendEvent, ChannelEvent,
         SendFails, TriggerDisconnected, TriggerStopped, FinalCallback, vars, sendVars,
         Send, SendCall, SendEnter, SendCheck, SendClaim, SendFill, SendReadSize, SendAdd,
         SenderFails, SendLeave, SendOnce, WantToSend, NetSend, NetSendNothing, PendSub,
         StartSendTracker
<1> QED BY <1>0, <1>1 DEF PopLast, PendCompare, SendMoreIf

LEMMA DataTypesKept ==
    ASSUME TypeOK, OwnBuffer, [Next]_vars
    PROVE  DataTypes'
<1>0. TypeOK /\ DataTypes /\ LocalTypes
  BY DEF TypeOK
<1>1. ASSUME UNCHANGED sendVars PROVE DataTypes'
  BY <1>0, <1>1 DEF DataTypes, sendVars
<1>2. CASE Start \/ StartDone \/ Stopping \/ Reading \/ PeerCloses \/ SendPolling \/ UNCHANGED vars
  <2>1. UNCHANGED sendVars
    BY <1>2 DEF Start, StartDone, Stopping, Stop, StopCas, StopWait, StopWaitEnds, StopClose,
          StopDisconnecting, Reading, AsyncRead, AsyncReadEnter, AsyncReadCheck, AsyncReadChange,
          AsyncReadTrack, AsyncReadLeave, ReadEvent, ReadWait, Read, ReadAgain, ReadCallback,
          ReadFails, ReadFinalCallback, PeerCloses, SendPolling, SendEvent, ChannelEvent,
          SendFails, TriggerDisconnected, TriggerStopped, FinalCallback, vars, sendVars
  <2> QED BY <1>1, <2>1
<1>3. ASSUME NEW s \in Senders, Send(s) PROVE DataTypes'
  <2>0. s \in Threads
    BY DEF Threads
  <2>1. ASSUME NEW n \in Sizes, SendCall(s, n) PROVE DataTypes'
    <3>1. n \in Nat
      BY TransportAssumption
    <3> QED BY <1>0, <2>1, <3>1 DEF SendCall, DataTypes
  <2>2. CASE SendClaim(s)
    <3>1. buf[s] \in Iobs
      BY <2>2, BufferOwned DEF SendClaim
    <3>2. [val |-> buf[s], ready |-> FALSE] \in [val : Iobs, ready : BOOLEAN]
      BY <3>1
    <3>3. slots' \in Seq([val : Iobs, ready : BOOLEAN])
      BY <1>0, <2>2, <3>2, AppendProperties DEF SendClaim, Sendlist!Claim, DataTypes
    <3> QED BY <1>0, <2>2, <3>3 DEF SendClaim, DataTypes
  <2>3. CASE SendFill(s)
    <3>1. PICK i \in DOMAIN slots : slots' = [slots EXCEPT ![i].ready = TRUE]
      BY <2>3 DEF SendFill, Sendlist!Fill
    <3>2. slots \in Seq(Slot) /\ i \in 1 .. Len(slots)
      BY SlotTypes
    <3>3. [slots[i] EXCEPT !.ready = TRUE] \in Slot
      <4>1. slots[i] \in Slot
        BY <3>2, ElementOfSeq
      <4> QED BY <4>1 DEF Slot
    <3>4. slots' \in Seq(Slot)
      BY <3>1, <3>2, <3>3, ExceptSeq
    <3> QED BY <1>0, <2>3, <3>4 DEF SendFill, DataTypes, Slot
  <2>4. CASE SendAdd(s)
    <3>1. pend' \in Int
      BY <1>0, <2>0, <2>4 DEF SendAdd, DataTypes, LocalTypes
    <3> QED BY <1>0, <2>4, <3>1 DEF SendAdd, DataTypes
  <2>5. CASE SendEnter(s) \/ SendCheck(s) \/ SendReadSize(s) \/ SenderFails(s) \/ SendLeave(s)
    BY <1>1, <2>5 DEF SendEnter, SendCheck, SendReadSize, SenderFails, SendLeave, sendVars
  <2> QED BY <1>3, <2>1, <2>2, <2>3, <2>4, <2>5 DEF Send
<1>4. ASSUME NEW t \in Threads, SendOnce(t) PROVE DataTypes'
  <2>1. CASE PopLast(t)
    <3>1. astray' \in BOOLEAN /\ UNCHANGED <<pend, flow, size, full>>
      BY <2>1, AstrayStays DEF PopLast
    <3>2. CASE UNCHANGED <<slots, last, lastSize>>
      BY <1>0, <3>1, <3>2 DEF DataTypes
    <3>3. CASE Sendlist!Pop /\ last' = Head(slots).val /\ lastSize' = size[last']
      <4>1. slots # <<>> /\ slots' = Tail(slots)
        BY <3>3 DEF Sendlist!Pop, Sendlist!CanPop
      <4>2. Head(slots) = slots[1] /\ Tail(slots) \in Seq(Slot) /\ slots[1].val \in Iobs
        BY <4>1, SlotTypes, HeadTailProperties
      <4> QED BY <1>0, <3>1, <3>3, <4>1, <4>2 DEF DataTypes, Slot
    <3> QED BY <2>1, <3>2, <3>3 DEF PopLast
  <2>2. CASE WantToSend(t)
    BY <1>0, <2>2 DEF WantToSend, DataTypes
  <2>3. CASE NetSend(t)
    <3>1. PICK k \in 1 .. size[flow] : size' = [size EXCEPT ![flow] = @ - k]
      BY <2>3 DEF NetSend
    <3>2. flow \in Iobs
      BY <1>0, <2>3 DEF NetSend, DataTypes
    <3>3. size[flow] \in Nat
      BY <1>0, <3>2 DEF DataTypes
    <3>4. size[flow] - k \in Nat
      BY <3>1, <3>3
    <3>5. size' \in [Iobs -> Nat]
      BY <1>0, <3>1, <3>2, <3>4 DEF DataTypes
    <3>6. UNCHANGED <<pend, slots, lastSize, full, astray>>
          /\ last' \in {last, None} /\ flow' \in {flow, None}
      BY <2>3 DEF NetSend
    <3> QED BY <1>0, <3>5, <3>6 DEF DataTypes
  <2>4. CASE PendSub(t)
    <3>1. pend' \in Int
      BY <1>0, <2>4 DEF PendSub, DataTypes
    <3> QED BY <1>0, <2>4, <3>1 DEF PendSub, DataTypes
  <2>5. CASE NetSendNothing(t) \/ StartSendTracker(t)
    BY <1>1, <2>5 DEF NetSendNothing, StartSendTracker, sendVars
  <2>6. CASE PendCompare(t)
    BY <1>0, <2>6, AstrayStays DEF PendCompare, SendMoreIf, DataTypes
  <2> QED BY <1>4, <2>1, <2>2, <2>3, <2>4, <2>5, <2>6 DEF SendOnce
<1> QED BY <1>2, <1>3, <1>4 DEF Next

LEMMA LocalTypesKept ==
    ASSUME TypeOK, OwnBuffer, [Next]_vars
    PROVE  LocalTypes'
<1>0. TypeOK /\ DataTypes /\ LocalTypes
  BY DEF TypeOK
<1>1. ASSUME UNCHANGED localVars \/ UNCHANGED <<buf, sz, old, nsent, accepted>> PROVE LocalTypes'
  BY <1>0, <1>1 DEF LocalTypes, localVars
<1>2. CASE Start \/ StartDone \/ Stopping \/ Reading \/ PeerCloses \/ SendPolling \/ UNCHANGED vars
  <2>1. UNCHANGED <<buf, sz, old, nsent, accepted>>
    BY <1>2 DEF Start, StartDone, Stopping, Stop, StopCas, StopWait, StopWaitEnds, StopClose,
          StopDisconnecting, Reading, AsyncRead, AsyncReadEnter, AsyncReadCheck, AsyncReadChange,
          AsyncReadTrack, AsyncReadLeave, ReadEvent, ReadWait, Read, ReadAgain, ReadCallback,
          ReadFails, ReadFinalCallback, PeerCloses, SendPolling, SendEvent, ChannelEvent,
          SendFails, TriggerDisconnected, TriggerStopped, FinalCallback, vars, localVars,
          readLocal
  <2> QED BY <1>1, <2>1
<1>3. ASSUME NEW s \in Senders, Send(s) PROVE LocalTypes'
  <2>0. s \in Threads
    BY DEF Threads
  <2>1. ASSUME NEW n \in Sizes, SendCall(s, n) PROVE LocalTypes'
    <3>1. nsent[s] + 1 \in 1 .. MaxSend /\ MaxSend \in Nat
      BY <1>0, <2>1, TransportAssumption DEF SendCall, LocalTypes
    <3>2. <<s, nsent[s] + 1>> \in Iobs /\ nsent[s] + 1 \in 0 .. MaxSend
      BY <3>1 DEF Iobs
    <3> QED BY <1>0, <2>0, <2>1, <3>2 DEF SendCall, LocalTypes
  <2>2. CASE SendReadSize(s)
    <3>1. buf[s] \in Iobs
      BY <2>2, BufferOwned DEF SendReadSize
    <3>2. size[buf[s]] \in Nat
      BY <1>0, <3>1 DEF DataTypes
    <3> QED BY <1>0, <2>2, <3>2 DEF SendReadSize, LocalTypes
  <2>3. CASE SendAdd(s)
    <3>1. buf[s] \in Iobs
      BY <2>3, BufferOwned DEF SendAdd
    <3> QED BY <1>0, <2>3, <3>1 DEF SendAdd, LocalTypes
  <2>4. CASE SendEnter(s) \/ SendCheck(s) \/ SendClaim(s) \/ SendFill(s) \/ SenderFails(s) \/ SendLeave(s)
    BY <1>1, <2>4 DEF SendEnter, SendCheck, SendClaim, SendFill, SenderFails, SendLeave
  <2> QED BY <1>3, <2>1, <2>2, <2>3, <2>4 DEF Send
<1>4. ASSUME NEW t \in Threads, SendOnce(t) PROVE LocalTypes'
  <2>1. CASE PopLast(t) \/ WantToSend(t) \/ NetSend(t) \/ NetSendNothing(t)
    BY <1>1, <2>1 DEF PopLast, WantToSend, NetSend, NetSendNothing
  <2>2. CASE PendSub(t)
    BY <1>0, <2>2 DEF PendSub, LocalTypes, DataTypes
  <2>3. CASE PendCompare(t) \/ StartSendTracker(t)
    <3>1. accepted' \subseteq Iobs
      <4>1. t \in Senders => buf[t] \in Iobs
        BY <2>3, BufferOwned DEF PendCompare, SendMoreIf, StartSendTracker
      <4>2. accepted' = accepted \/ (t \in Senders /\ accepted' = accepted \cup {buf[t]})
        BY <2>3 DEF PendCompare, SendMoreIf, StartSendTracker, Finish
      <4> QED BY <1>0, <4>1, <4>2 DEF LocalTypes
    <3>2. UNCHANGED <<buf, sz, old, nsent>>
      BY <2>3 DEF PendCompare, SendMoreIf, StartSendTracker
    <3> QED BY <1>0, <3>1, <3>2 DEF LocalTypes
  <2> QED BY <1>4, <2>1, <2>2, <2>3 DEF SendOnce
<1> QED BY <1>2, <1>3, <1>4 DEF Next

LEMMA IoTypesKept ==
    ASSUME TypeOK, [Next]_vars
    PROVE  IoTypes'
<1>0. TypeOK /\ DataTypes /\ IoTypes
  BY DEF TypeOK
<1> DEFINE Event == [ev : {"disconnected", "buffer_sent"}, iob : Iobs \cup {None}]
<1>1. ASSUME UNCHANGED ioVars PROVE IoTypes'
  BY <1>0, <1>1 DEF IoTypes, ioVars
<1>2. Disconnected \in Event /\ \A b \in Iobs : BufferSent(b) \in Event
  BY DEF Disconnected, BufferSent
<1>3. \A e \in Event : Append(events, e) \in Seq(Event)
  BY <1>0, AppendProperties DEF IoTypes
<1>4. \A e : (events' = events \/ (e \in Event /\ events' = Append(events, e)))
             => events' \in Seq(Event)
  BY <1>0, <1>3 DEF IoTypes
<1>5. CASE Start \/ StartDone \/ UNCHANGED vars
  BY <1>1, <1>5 DEF Start, StartDone, vars, ioVars
<1>6. CASE Stopping
  <2>1. CASE StopClose
    <3>1. events' \in Seq(Event)
      BY <1>2, <1>4, <2>1 DEF StopClose, Post
    <3>2. shut' \in {"open", "rd", "rdwr"} /\ UNCHANGED <<strk, peer, wire, ended>>
      BY <1>0, <2>1 DEF StopClose, ShutdownRdwr, ShutdownRd, IoTypes
    <3> QED BY <1>0, <3>1, <3>2 DEF IoTypes
  <2>2. CASE ~StopClose
    BY <1>1, <1>6, <2>2 DEF Stopping, Stop, StopCas, StopWait, StopWaitEnds, StopDisconnecting
  <2> QED BY <2>1, <2>2
<1>7. ASSUME NEW s \in Senders, Send(s) PROVE IoTypes'
  <2>1. CASE SenderFails(s)
    <3>1. events' \in Seq(Event) /\ UNCHANGED <<strk, shut, peer, wire, ended>>
      BY <1>2, <1>4, <2>1 DEF SenderFails, Post
    <3> QED BY <1>0, <3>1 DEF IoTypes
  <2>2. CASE ~SenderFails(s)
    BY <1>1, <1>7, <2>2 DEF Send, SendCall, SendEnter, SendCheck, SendClaim, SendFill,
          SendReadSize, SendAdd, SendLeave
  <2> QED BY <2>1, <2>2
<1>8. ASSUME NEW t \in Threads, SendOnce(t) PROVE IoTypes'
  <2>1. CASE NetSend(t)
    <3>1. flow \in Iobs /\ BufferSent(last) \in Event
      BY <1>0, <2>1 DEF NetSend, DataTypes, BufferSent
    <3>2. events' = events \/ (BufferSent(last) \in Event /\ events' = Append(events, BufferSent(last)))
      BY <2>1, <3>1 DEF NetSend, Post
    <3>3. events' \in Seq(Event)
      BY <1>4, <3>2
    <3>4. wire' \in Seq(Iobs)
      <4>1. wire' = wire \/ wire' = Append(wire, flow)
        BY <2>1 DEF NetSend
      <4>2. wire \in Seq(Iobs)
        BY <1>0 DEF IoTypes
      <4>3. Append(wire, flow) \in Seq(Iobs)
        BY <3>1, <4>2, AppendProperties
      <4> QED BY <4>1, <4>2, <4>3
    <3>5. UNCHANGED <<strk, shut, peer, ended>>
      BY <2>1 DEF NetSend
    <3> QED BY <1>0, <3>3, <3>4, <3>5 DEF IoTypes
  <2>2. CASE StartSendTracker(t)
    BY <1>0, <2>2 DEF StartSendTracker, IoTypes
  <2>3. CASE PopLast(t) \/ WantToSend(t) \/ NetSendNothing(t) \/ PendSub(t) \/ PendCompare(t)
    BY <1>1, <2>3 DEF PopLast, WantToSend, NetSendNothing, PendSub, PendCompare, SendMoreIf
  <2> QED BY <1>8, <2>1, <2>2, <2>3 DEF SendOnce
<1>9. CASE SendPolling
  <2>1. CASE SendEvent
    BY <1>0, <2>1 DEF SendEvent, IoTypes
  <2>2. CASE ChannelEvent
    <3>1. events # <<>> /\ events' = Tail(events) /\ UNCHANGED <<strk, shut, peer, wire, ended>>
      BY <2>2 DEF ChannelEvent
    <3>2. events' \in Seq(Event)
      BY <1>0, <3>1, HeadTailProperties DEF IoTypes
    <3> QED BY <1>0, <3>1, <3>2 DEF IoTypes
  <2>3. CASE SendFails \/ TriggerDisconnected \/ TriggerStopped
    BY <1>1, <2>3 DEF SendFails, TriggerDisconnected, TriggerStopped
  <2>4. CASE FinalCallback
    <3>1. ended' \in Seq({"disconnected_cb", "stopped_cb"})
      BY <1>0, <2>4, AppendProperties DEF FinalCallback, IoTypes
    <3>2. shut' = "rdwr" /\ UNCHANGED <<events, strk, peer, wire>>
      BY <2>4 DEF FinalCallback, ShutdownRdwr
    <3> QED BY <1>0, <3>1, <3>2 DEF IoTypes
  <2> QED BY <1>9, <2>1, <2>2, <2>3, <2>4 DEF SendPolling
<1>10. CASE Reading
  <2>1. CASE ReadFinalCallback
    <3>1. ended' \in Seq({"disconnected_cb", "stopped_cb"})
      BY <1>0, <2>1, AppendProperties DEF ReadFinalCallback, IoTypes
    <3>2. shut' = "rdwr" /\ UNCHANGED <<events, strk, peer, wire>>
      BY <2>1 DEF ReadFinalCallback, ShutdownRdwr
    <3> QED BY <1>0, <3>1, <3>2 DEF IoTypes
  <2>2. CASE ~ReadFinalCallback
    BY <1>1, <1>10, <2>2 DEF Reading, AsyncRead, AsyncReadEnter, AsyncReadCheck, AsyncReadChange,
          AsyncReadTrack, AsyncReadLeave, ReadEvent, ReadWait, Read, ReadAgain, ReadCallback,
          ReadFails
  <2> QED BY <2>1, <2>2
<1>11. CASE PeerCloses
  BY <1>0, <1>11 DEF PeerCloses, IoTypes
<1> QED BY <1>5, <1>6, <1>7, <1>8, <1>9, <1>10, <1>11 DEF Next

LEMMA ReadTypesKept ==
    ASSUME TypeOK, [Next]_vars
    PROVE  ReadTypes'
<1>0. ReadTypes
  BY DEF TypeOK
<1>1. ASSUME UNCHANGED readVars PROVE ReadTypes'
  BY <1>0, <1>1 DEF ReadTypes, readVars
<1>2. CASE Start \/ StartDone \/ Stopping \/ PeerCloses \/ SendPolling \/ UNCHANGED vars
  <2>1. UNCHANGED readVars
    BY <1>2 DEF Start, StartDone, Stopping, Stop, StopCas, StopWait, StopWaitEnds, StopClose,
          StopDisconnecting, PeerCloses, SendPolling, SendEvent, ChannelEvent,
          SendFails, TriggerDisconnected, TriggerStopped, FinalCallback, vars, readVars
  <2> QED BY <1>1, <2>1
<1>3. ASSUME NEW s \in Senders, Send(s) PROVE ReadTypes'
  BY <1>1, <1>3 DEF Send, SendCall, SendEnter, SendCheck, SendClaim, SendFill, SendReadSize,
        SendAdd, SenderFails, SendLeave
<1>4. ASSUME NEW t \in Threads, SendOnce(t) PROVE ReadTypes'
  BY <1>1, <1>4 DEF SendOnce, PopLast, WantToSend, NetSend, NetSendNothing, PendSub,
        PendCompare, SendMoreIf, StartSendTracker
<1>5. CASE Reading
  <2> USE <1>0 DEF ReadTypes
  <2>1. CASE AsyncRead \/ AsyncReadEnter \/ AsyncReadCheck \/ AsyncReadChange
             \/ AsyncReadTrack \/ AsyncReadLeave
    BY <2>1 DEF AsyncRead, AsyncReadEnter, AsyncReadCheck, AsyncReadChange, AsyncReadTrack,
                AsyncReadLeave
  <2>2. CASE ReadEvent \/ ReadWait \/ ReadAgain \/ ReadCallback
    BY <2>2 DEF ReadEvent, ReadWait, ReadAgain, ReadCallback
  <2>3. CASE Read
    BY <2>3, TransportAssumption DEF Read
  <2>4. CASE ReadFails \/ ReadFinalCallback
    BY <2>4 DEF ReadFails, ReadFinalCallback
  <2> QED BY <1>5, <2>1, <2>2, <2>3, <2>4 DEF Reading
<1> QED BY <1>2, <1>3, <1>4, <1>5 DEF Next

-----------------------------------------------------------------------------
(* The theorems about sending.                                             *)

TransportInv == EndInv /\ OptInv /\ TypeOK /\ OwnBuffer /\ (astray \/ SendInv)

LEMMA InitTransportInv == Init => TransportInv
<1> SUFFICES ASSUME Init PROVE TransportInv
  OBVIOUS
<1>1. EndInv /\ OptInv
  BY InitEndInv, InitOptInv
<1>2. slots = <<>> /\ last = None /\ flow = None /\ pend = 0 /\ lastSize = 0 /\ strk = FALSE
      /\ astray = FALSE
      /\ \A t \in Threads : pc[t] = "idle"
  BY DEF Init, Sendlist!Init
<1>3. TypeOK
  <2>1. ControlTypes
    BY <1>1, EndInvTypes
  <2>2. DataTypes
    <3>1. slots \in Seq([val : Iobs, ready : BOOLEAN])
      BY <1>2
    <3>2. size \in [Iobs -> Nat] /\ full \in [Iobs -> Nat]
      BY DEF Init
    <3>3. astray \in BOOLEAN
      BY Zenon DEF Init
    <3>4. /\ pend \in Int /\ lastSize \in Nat
          /\ last \in Iobs \cup {None} /\ flow \in Iobs \cup {None}
      BY <1>2
    <3> QED BY <3>1, <3>2, <3>3, <3>4, Zenon DEF DataTypes
  <2>3. LocalTypes
    <3>1. 0 \in 0 .. MaxSend
      BY TransportAssumption
    <3> QED BY <3>1 DEF Init, LocalTypes
  <2>4. IoTypes
    <3>1. events = <<>> /\ wire = <<>> /\ ended = <<>> /\ shut = "open" /\ peer = "open"
      BY DEF Init
    <3>2. <<>> \in Seq([ev : {"disconnected", "buffer_sent"}, iob : Iobs \cup {None}])
          /\ <<>> \in Seq(Iobs) /\ <<>> \in Seq({"disconnected_cb", "stopped_cb"})
      BY EmptySeq
    <3> QED BY <1>2, <3>1, <3>2 DEF IoTypes
  <2>5. ReadTypes
    <3>1. 0 \in 0 .. MaxReads
      BY TransportAssumption
    <3> QED BY <3>1 DEF Init, ReadTypes
  <2> QED BY <2>1, <2>2, <2>3, <2>4, <2>5 DEF TypeOK
<1>4. Queued = {} /\ DOMAIN slots = {}
  <2>1. DOMAIN slots = 1 .. Len(slots) /\ Len(slots) = 0
    BY <1>2, <1>3, SlotTypes, EmptySeq
  <2>2. DOMAIN slots = {}
    BY <2>1
  <2> QED BY <2>2 DEF Queued
<1>5. \A s \in Senders : pc[s] = "idle"
  BY <1>2 DEF Threads
<1>6. BufferInv
  <2>1. \A s \in Senders, i \in 1 .. MaxSend : <<s, i>> # None
    BY TransportAssumption DEF Iobs
  <2> QED BY <1>2, <1>4, <1>5, <2>1
          DEF BufferInv, OwnBuffer, Fresh, Known, QueuedWhole, QueuedOnce, Unclaimed
<1>7. SlotInv
  BY <1>4, <1>5 DEF SlotInv, PushedThere, UnfilledPushed, Pushing
<1>8. LastWhole /\ HolderAt /\ ChanceInv /\ NotBegun
  BY <1>2, <1>5 DEF LastWhole, HolderAt, HolderHas, HasChance, ChanceInv, SendChance, NotBegun
<1>9. PendingAccounted
  <2>1. Counted = {}
    BY <1>2, <1>4 DEF Counted
  <2>2. ~\E t \in Threads : pc[t] \in {"sub", "resub"}
    BY <1>2
  <2> QED BY <1>2, <2>1, <2>2, BytesEmpty DEF PendingAccounted
<1> QED BY <1>1, <1>3, <1>6, <1>7, <1>8, <1>9 DEF TransportInv, SendInv, BufferInv

LEMMA NextTransportInv == TransportInv /\ [Next]_vars => TransportInv'
<1> SUFFICES ASSUME TransportInv, [Next]_vars PROVE TransportInv'
  OBVIOUS
<1>1. EndInv' /\ OptInv'
  BY NextEndInv, NextOptInv DEF TransportInv
<1>2. astray' \/ SendInv'
  BY AstrayStays, NextSendInv DEF TransportInv
<1>3. ControlTypes'
  <2>1. Busy' \in SUBSET Senders
    BY DEF Busy
  <2>2. Cardinality(Busy') \in Nat
    BY <2>1, TransportAssumption, FS_Subset, FS_CardinalityType
  <2>3. opt' \in Nat
    BY <1>1, <2>2 DEF OptInv, OptCounted, ReadBusy
  <2> QED BY <1>1, <2>3 DEF ControlTypes, EndInv, EndTypes, StopLabels, StopWon, StopEnds
<1>4. TypeOK' /\ OwnBuffer'
  BY <1>3, DataTypesKept, LocalTypesKept, IoTypesKept, ReadTypesKept, OwnBufferKept
     DEF TransportInv, TypeOK
<1> QED BY <1>1, <1>2, <1>4 DEF TransportInv

LEMMA TransportInvariance == Spec => []TransportInv
  BY InitTransportInv, NextTransportInv, PTL DEF Spec

LEMMA TransportInvSafe ==
    TransportInv => /\ Accounted
                    /\ astray \/ (SendChance /\ SizeReadIsLive /\ SendNeverAborts)
<1> SUFFICES ASSUME TransportInv, ~astray
             PROVE  PendingAccounted /\ SendChance /\ SizeReadIsLive /\ SendNeverAborts
  BY DEF TransportInv, Accounted
<1>0. TypeOK /\ SendInv
  BY DEF TransportInv
<1>1. PendingAccounted /\ SendChance
  BY <1>0 DEF SendInv, ChanceInv
<1>2. SizeReadIsLive
  <2> SUFFICES ASSUME NEW s \in Senders, pc[s] = "size" PROVE size[buf[s]] = full[buf[s]]
    BY DEF SizeReadIsLive
  <2>1. buf[s] \in Queued
    BY <1>0, BufferOfSender DEF Pushing
  <2> QED BY <1>0, <2>1 DEF SendInv, BufferInv, QueuedWhole
<1>3. SendNeverAborts
  BY <1>0 DEF SendInv, HolderAt, HolderHas, SendNeverAborts
<1> QED BY <1>1, <1>2, <1>3

\* pending_send_size_ is what has been added for buffers that are in the sendlist
\* or being sent and not yet subtracted, until a thread uses the chance to send on
\* a buffer that is not counted yet or finds last_send_iob_size_ changed between
\* its two reads, and every variable always has its type; for any number of
\* senders and any sizes (tcp_transport.cpp: __async_send, __send_once).
THEOREM PendingIsAccounted == Spec => []Accounted
  BY TransportInvariance, TransportInvSafe, PTL

\* Until then one thread at a time has the chance to send, or the send tracker
\* keeps it, and while the transport is started somebody has it when anything is
\* pending; who has it finds last_send_iob_ free and the oldest slot filled, and a
\* sender reads the size of its buffer before anybody sends from it.  A pending
\* read is always with one actor (tcp_transport.cpp: send, __send_once,
\* on_send_event, async_read, on_read_event).
THEOREM SendingHasOneActor == Spec => []OneActor
<1>1. ReadChance /\ (astray \/ (SendChance /\ SizeReadIsLive /\ SendNeverAborts)) => OneActor
  BY DEF OneActor
<1> QED BY <1>1, TransportInvariance, TransportInvSafe, PendingReadIsHeld, PTL
=============================================================================
