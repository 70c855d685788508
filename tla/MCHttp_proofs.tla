----------------------------- MODULE MCHttp_proofs -----------------------------
(***************************************************************************)
(* Proofs about what is built on the transports, for any number of calls,  *)
(* connections, packets and datagrams: a client's call returns the answer  *)
(* to its own request, the owner of a connection hears of the end once,    *)
(* and a pending read of a udp transport has somebody who will serve it.   *)
(***************************************************************************)
EXTENDS MCHttp, SequenceTheorems, TLAPS

-----------------------------------------------------------------------------
(* The http client.                                                        *)

NoConn == C!NoConn
NoResp == C!NoResp

\* The user's thread is past the dial or stops what it had.
Connected == {"stop_dial", "reset_dial", "send", "wait", "waiting", "woken", "timeout",
              "stop_return", "reset_return"}

ClientTypes ==
    /\ conn \in 0 .. dialed /\ dialed \in 0 .. MaxConns
    /\ links \in [C!Conns -> {"none", "started", "stopping", "ended"}]
    /\ server \in [C!Conns -> Seq(Nat)]
    /\ rconn \in 0 .. dialed /\ sconn \in 0 .. dialed
    /\ events \subseteq C!Conns
    /\ call \in Nat /\ resp \in Nat /\ rresp \in Nat
    /\ waiting \in BOOLEAN /\ notified \in BOOLEAN
    /\ upc \in {"idle", "reuse", "dial", "hung", "return"} \cup Connected

\* resp_mx_ is free between calls and in wait_for.
LockHeld == mx = "free" <=> upc \in {"idle", "waiting"}

\* A connection that was not dialed yet is new in everything.
NewConns ==
    /\ \A c \in C!Conns : c > dialed => links[c] = "none" /\ server[c] = <<>>
    /\ \A c \in events : c <= dialed

\* A connection that stop was called for is given up before the lock is.
StoppedIsReset ==
    /\ upc \in Connected => conn # NoConn
    /\ conn # NoConn /\ (sconn = conn \/ conn \in events)
           => upc \in {"reset_dial", "reset_return"}

\* The connections that a call was left with that was woken for no reason.
Spoiled == {results[j].conn : j \in {i \in DOMAIN results : results[i].early}}

\* All that is still to come on another one is the answer to the call.
OnlyOurs ==
    conn # NoConn /\ conn \notin Spoiled =>
        /\ links[conn] = "started" => server[conn] \in {<<>>, <<call>>}
        /\ rconn = conn => \/ rresp = NoResp /\ links[conn] # "started"
                           \/ rresp = call /\ (links[conn] = "started" => server[conn] = <<>>)

\* Nothing is to come, or the end of the connection only.
Quiet ==
    conn # NoConn /\ conn \notin Spoiled =>
        /\ links[conn] = "started" => server[conn] = <<>>
        /\ rconn = conn => rresp = NoResp /\ links[conn] # "started"

\* Before a request is sent, and after the wait for it was notified.
QuietBetween ==
    /\ upc \in {"idle", "reuse", "stop_dial", "reset_dial", "dial", "hung", "send", "return"}
           => Quiet
    /\ upc \in {"waiting", "woken"} /\ notified => Quiet

\* resp_ is set anew before the user is notified.
RespIsOurs ==
    upc \in {"waiting", "woken"} /\ notified /\ conn \notin Spoiled => resp \in {NoResp, call}

ResultType == [call : Nat, resp : Nat, conn : Nat, early : BOOLEAN]
ResultsTypes ==
    /\ results \in Seq(ResultType)
    /\ \A i \in DOMAIN results : results[i].conn <= dialed

ClientInv ==
    /\ ClientTypes /\ LockHeld /\ NewConns /\ StoppedIsReset /\ OnlyOurs
    /\ QuietBetween /\ RespIsOurs /\ ResultsTypes /\ AnswerIsOurs

LEMMA InitClientInv == C!Init => ClientInv
<1> SUFFICES ASSUME C!Init PROVE ClientInv
  OBVIOUS
<1>1. /\ mx = "free" /\ conn = 0 /\ dialed = 0 /\ rconn = 0 /\ rresp = 0 /\ sconn = 0
      /\ events = {} /\ waiting = FALSE /\ resp = 0 /\ notified = FALSE
      /\ upc = "idle" /\ call = 0 /\ results = <<>>
      /\ links = [c \in C!Conns |-> "none"] /\ server = [c \in C!Conns |-> <<>>]
  BY DEF C!Init, C!NoConn, C!NoResp
<1>2. ClientTypes /\ ResultsTypes
  <2>1. <<>> \in Seq(Nat) /\ <<>> \in Seq(ResultType)
    BY EmptySeq
  <2>2. 0 \in 0 .. MaxConns
    BY ClientAssumption
  <2>3. /\ links \in [C!Conns -> {"none", "started", "stopping", "ended"}]
        /\ server \in [C!Conns -> Seq(Nat)]
    BY <1>1, <2>1
  <2>4. upc \in {"idle", "reuse", "dial", "hung", "return"} \cup Connected
    BY <1>1
  <2>5. conn \in 0 .. dialed /\ rconn \in 0 .. dialed /\ sconn \in 0 .. dialed
    BY <1>1
  <2>6. events \subseteq C!Conns /\ call \in Nat /\ resp \in Nat /\ rresp \in Nat
        /\ waiting \in BOOLEAN /\ notified \in BOOLEAN
    BY <1>1
  <2>7. ClientTypes
    BY <1>1, <2>2, <2>3, <2>4, <2>5, <2>6 DEF ClientTypes
  <2> QED BY <1>1, <2>1, <2>7 DEF ResultsTypes
<1>3. LockHeld /\ NewConns
  BY <1>1 DEF LockHeld, NewConns
<1>4. StoppedIsReset /\ OnlyOurs /\ QuietBetween /\ RespIsOurs
  BY <1>1 DEF StoppedIsReset, OnlyOurs, Quiet, QuietBetween, RespIsOurs, Connected,
              NoConn, C!NoConn
<1>5. AnswerIsOurs
  BY <1>1, EmptySeq DEF AnswerIsOurs, C!AnswerIsOurs
<1> QED BY <1>2, <1>3, <1>4, <1>5 DEF ClientInv

\* A step that returns nothing spoils nothing.
LEMMA SpoiledStays ==
    ASSUME ResultsTypes, UNCHANGED results, dialed' >= dialed, dialed \in Nat, dialed' \in Nat
    PROVE  Spoiled' = Spoiled /\ ResultsTypes' /\ (AnswerIsOurs => AnswerIsOurs')
<1>1. \A i \in DOMAIN results : results[i] \in ResultType
  BY DEF ResultsTypes
<1>2. \A i \in DOMAIN results : results[i].conn \in Nat
  BY <1>1 DEF ResultType
<1>3. ResultsTypes'
  BY <1>2 DEF ResultsTypes
<1> QED BY <1>3 DEF Spoiled, AnswerIsOurs, C!AnswerIsOurs

\* What a step leaves alone when it touches neither the answers nor the results.
LEMMA UserStep ==
    ASSUME ClientInv,
           C!Call \/ C!Reuse \/ C!StopConn \/ C!ResetConn \/ C!Dial \/ C!Send
    PROVE  ClientInv'
<1>0. /\ ClientTypes /\ LockHeld /\ NewConns /\ StoppedIsReset /\ OnlyOurs
      /\ QuietBetween /\ RespIsOurs /\ ResultsTypes /\ AnswerIsOurs
  BY DEF ClientInv
<1>7. Spoiled' = Spoiled /\ ResultsTypes' /\ AnswerIsOurs'
  <2>1. UNCHANGED results /\ dialed \in Nat /\ dialed' \in Nat /\ dialed' >= dialed
    BY <1>0, ClientAssumption
    DEF ClientTypes, C!Call, C!Reuse, C!StopConn, C!ResetConn, C!Dial, C!Send, C!link
  <2> QED BY <1>0, <2>1, SpoiledStays
<1> USE <1>7, ClientAssumption
    DEF ClientInv, ClientTypes, LockHeld, NewConns, StoppedIsReset, OnlyOurs, Quiet,
        QuietBetween, RespIsOurs, Connected,
        C!Conns, NoConn, NoResp, C!NoConn, C!NoResp, C!link, C!answer
<1>1. CASE C!Call
  BY <1>0, <1>1 DEF C!Call
<1>2. CASE C!Reuse
  BY <1>0, <1>2 DEF C!Reuse, C!Valid
<1>3. CASE C!StopConn
  <2>0. \/ upc = "stop_dial" /\ upc' = "reset_dial"
        \/ upc = "stop_return" /\ upc' = "reset_return"
    BY <1>3 DEF C!StopConn, C!StopsThen
  <2>1. /\ conn \in C!Conns /\ conn <= dialed
        /\ links' = [links EXCEPT ![conn] = IF @ = "started" THEN "stopping" ELSE @]
        /\ events' \subseteq events \cup {conn}
        /\ UNCHANGED <<mx, conn, dialed, server, waiting, resp, notified, call, rconn,
                       rresp, sconn, results>>
    BY <1>0, <1>3, <2>0 DEF C!StopConn
  <2>2. ClientTypes' /\ ResultsTypes' /\ LockHeld' /\ AnswerIsOurs' /\ RespIsOurs'
    BY <1>0, <2>0, <2>1
  <2>3. NewConns' /\ StoppedIsReset'
    BY <1>0, <2>0, <2>1
  <2>4. OnlyOurs' /\ QuietBetween'
    BY <1>0, <2>0, <2>1
  <2> QED BY <2>2, <2>3, <2>4
<1>4. CASE C!ResetConn
  BY <1>0, <1>4 DEF C!ResetConn
<1>5. CASE C!Dial
  <2>1. CASE upc' = "return"
    BY <1>0, <1>5, <2>1 DEF C!Dial
  <2>2. CASE upc' = "send"
    <3>1. /\ dialed' = dialed + 1 /\ conn' = dialed' /\ dialed < MaxConns /\ upc = "dial"
          /\ links' = [links EXCEPT ![dialed'] = "started"] /\ sconn = 0
          /\ UNCHANGED <<mx, server, events, waiting, resp, notified, call, kind, rconn,
                         rresp, sconn, results>>
      BY <1>0, <1>5, <2>2 DEF C!Dial
    <3>2. dialed' > dialed /\ dialed' \in C!Conns
      BY <1>0, <3>1
    <3>3. dialed' \notin events /\ rconn # dialed' /\ server[dialed'] = <<>>
      BY <1>0, <3>1, <3>2
    <3>4. ClientTypes'
      BY <1>0, <2>2, <3>1, <3>2
    <3>5. NewConns' /\ LockHeld' /\ StoppedIsReset'
      BY <1>0, <2>2, <3>1, <3>2, <3>3
    <3>6. OnlyOurs' /\ QuietBetween'
      BY <1>0, <2>2, <3>1, <3>2, <3>3
    <3>7. RespIsOurs' /\ ResultsTypes' /\ AnswerIsOurs'
      BY <1>0, <2>2, <3>1
    <3> QED BY <3>4, <3>5, <3>6, <3>7
  <2> QED BY <1>5, <2>1, <2>2 DEF C!Dial
<1>6. CASE C!Send
  <2>1. /\ upc = "send" /\ conn \in C!Conns
        /\ UNCHANGED <<mx, conn, dialed, links, parsing, events, waiting, resp, notified,
                       call, kind, rconn, rresp, sconn, results>>
    BY <1>0, <1>6 DEF C!Send
  <2>2. CASE links[conn] # "started"
    BY <1>0, <1>6, <2>1, <2>2 DEF C!Send
  <2>3. CASE links[conn] = "started"
    <3>1. /\ upc' = "wait" /\ conn # NoConn
          /\ server' = [server EXCEPT ![conn] = Append(server[conn], call)]
      BY <1>0, <1>6, <2>1, <2>3 DEF C!Send
    <3>2. Append(server[conn], call) \in Seq(Nat)
      BY <1>0, <2>1
    <3>3. ASSUME conn \notin Spoiled
          PROVE  server'[conn] = <<call>> /\ rconn # conn
      <4>1. server[conn] = <<>> /\ rconn # conn
        BY <1>0, <2>1, <2>3, <3>1, <3>3
      <4> QED BY <1>0, <2>1, <3>1, <4>1
    <3>4. ClientTypes'
      BY <1>0, <2>1, <3>1, <3>2
    <3>5. NewConns' /\ LockHeld' /\ StoppedIsReset'
      BY <1>0, <2>1, <3>1
    <3>6. QuietBetween' /\ RespIsOurs'
      BY <1>0, <2>1, <3>1
    <3>7. OnlyOurs'
      BY <2>1, <3>3
    <3> QED BY <3>4, <3>5, <3>6, <3>7
  <2> QED BY <2>2, <2>3
<1> QED BY <1>1, <1>2, <1>3, <1>4, <1>5, <1>6

\* What is returned is the answer to the call, or the call or an earlier one on
\* its connection was woken for no reason.
LEMMA ResultAppended ==
    ASSUME ClientTypes, ResultsTypes, AnswerIsOurs, RespIsOurs, StoppedIsReset,
           upc = "woken", results' = Append(results, C!Result),
           dialed \in Nat, dialed' = dialed
    PROVE  ResultsTypes' /\ AnswerIsOurs'
<1> DEFINE n == Len(results)
<1>1. /\ C!Result \in ResultType /\ C!Result.conn = conn /\ C!Result.early = ~notified
      /\ C!Result.resp = resp /\ C!Result.call = call /\ conn <= dialed
  <2>1. conn \in Nat /\ conn <= dialed /\ call \in Nat /\ resp \in Nat
    BY DEF ClientTypes
  <2>2. (~notified) \in BOOLEAN
    OBVIOUS
  <2> QED BY <2>1, <2>2 DEF C!Result, ResultType
<1>2. /\ results \in Seq(ResultType) /\ n \in Nat /\ DOMAIN results = 1 .. n
      /\ DOMAIN results' = 1 .. n + 1 /\ results'[n + 1] = C!Result
      /\ \A i \in 1 .. n : results'[i] = results[i]
      /\ results' \in Seq(ResultType)
  BY <1>1 DEF ResultsTypes
<1>3. ResultsTypes'
  <2>1. ASSUME NEW i \in 1 .. n + 1 PROVE results'[i].conn <= dialed'
    BY <1>1, <1>2, <2>1 DEF ResultsTypes
  <2> QED BY <1>2, <2>1 DEF ResultsTypes
<1>4. \/ C!Result.resp \in {NoResp, C!Result.call}
      \/ \E j \in 1 .. n + 1 : results'[j].early /\ results'[j].conn = C!Result.conn
  <2>1. CASE ~notified
    <3>1. n + 1 \in 1 .. n + 1
      BY <1>2
    <3>2. C!Result.early
      BY <2>1 DEF C!Result
    <3> QED BY <1>2, <3>1, <3>2
  <2>2. CASE notified /\ conn \notin Spoiled
    BY <1>1, <2>2 DEF RespIsOurs
  <2>3. CASE conn \in Spoiled
    <3>1. PICK j \in 1 .. n : results[j].early /\ results[j].conn = conn
      BY <1>2, <2>3 DEF Spoiled
    <3> QED BY <1>1, <1>2, <3>1
  <2> QED BY <2>1, <2>2, <2>3
<1>5. ASSUME NEW i \in 1 .. n + 1
      PROVE  \/ results'[i].resp \in {NoResp, results'[i].call}
             \/ \E j \in 1 .. i : results'[j].early /\ results'[j].conn = results'[i].conn
  <2>1. CASE i = n + 1
    BY <1>2, <1>4, <2>1
  <2>2. CASE i \in 1 .. n
    <3>1. results'[i] = results[i] /\ \A j \in 1 .. i : results'[j] = results[j]
      BY <1>2, <2>2
    <3>2. \/ results[i].resp \in {NoResp, results[i].call}
          \/ \E j \in 1 .. i : results[j].early /\ results[j].conn = results[i].conn
      BY <1>2, <2>2 DEF AnswerIsOurs, C!AnswerIsOurs, NoResp
    <3> QED BY <3>1, <3>2
  <2> QED BY <1>2, <2>1, <2>2
<1>6. AnswerIsOurs'
  BY <1>2, <1>5 DEF AnswerIsOurs, C!AnswerIsOurs, NoResp
<1> QED BY <1>3, <1>6

\* It spoils the connection that it is left with.
LEMMA ResultSpoils ==
    ASSUME ResultsTypes, results' = Append(results, C!Result)
    PROVE  /\ conn \in Spoiled => conn \in Spoiled'
           /\ conn \notin Spoiled /\ ~notified => conn \in Spoiled'
<1> DEFINE n == Len(results)
<1>1. /\ n \in Nat /\ DOMAIN results = 1 .. n /\ DOMAIN results' = 1 .. n + 1
      /\ results'[n + 1] = C!Result /\ \A i \in 1 .. n : results'[i] = results[i]
  BY DEF ResultsTypes
<1>2. ASSUME conn \in Spoiled PROVE conn \in Spoiled'
  <2>1. PICK j \in 1 .. n : results[j].early /\ results[j].conn = conn
    BY <1>1, <1>2 DEF Spoiled
  <2>2. j \in DOMAIN results' /\ results'[j].early /\ results'[j].conn = conn
    BY <1>1, <2>1
  <2> QED BY <2>2 DEF Spoiled
<1>3. ASSUME ~notified PROVE conn \in Spoiled'
  <2>1. C!Result.early /\ C!Result.conn = conn
    BY <1>3 DEF C!Result
  <2>2. n + 1 \in DOMAIN results' /\ results'[n + 1].early /\ results'[n + 1].conn = conn
    BY <1>1, <2>1
  <2> QED BY <2>2 DEF Spoiled
<1> QED BY <1>2, <1>3

\* The wait and what follows it.  It ends with a notification or its timeout.
LEMMA WaitStep ==
    ASSUME ClientInv,
           \/ C!Wait \/ C!Wake \/ C!Timeout \/ C!TakeResponse \/ C!TakeConnection \/ C!Return
    PROVE  ClientInv'
<1>0. /\ ClientTypes /\ LockHeld /\ NewConns /\ StoppedIsReset /\ OnlyOurs
      /\ QuietBetween /\ RespIsOurs /\ ResultsTypes /\ AnswerIsOurs
  BY DEF ClientInv
<1>1. dialed \in Nat /\ dialed' = dialed
  BY <1>0, ClientAssumption
  DEF ClientTypes, C!Wait, C!Wake, C!Timeout, C!TakeResponse, C!TakeConnection, C!Return,
      C!link
<1>2. ASSUME UNCHANGED results
      PROVE  Spoiled' = Spoiled /\ ResultsTypes' /\ AnswerIsOurs'
  BY <1>0, <1>1, <1>2, SpoiledStays
<1> USE DEF ClientInv, ClientTypes, LockHeld, NewConns, StoppedIsReset, OnlyOurs, Quiet,
            QuietBetween, RespIsOurs, Connected, C!Conns, NoConn, NoResp, C!NoConn, C!NoResp
<1>3. CASE C!Wait
  <2>1. Spoiled' = Spoiled /\ ResultsTypes' /\ AnswerIsOurs'
    BY <1>2, <1>3 DEF C!Wait
  <2> QED BY <1>0, <1>3, <2>1 DEF C!Wait, C!link
<1>4. CASE C!Wake
  <2>1. Spoiled' = Spoiled /\ ResultsTypes' /\ AnswerIsOurs'
    BY <1>2, <1>4 DEF C!Wake
  <2> QED BY <1>0, <1>4, <2>1 DEF C!Wake, C!link, C!answer
<1>5. CASE C!Timeout
  <2>1. Spoiled' = Spoiled /\ ResultsTypes' /\ AnswerIsOurs'
    BY <1>2, <1>5 DEF C!Timeout
  <2>2. conn # NoConn /\ upc' = "stop_return"
    BY <1>0, <1>5 DEF C!Timeout
  <2> QED BY <1>0, <1>5, <2>1, <2>2 DEF C!Timeout, C!link
<1>6. CASE C!TakeResponse
  <2>1. /\ upc = "woken" /\ upc' = "return" /\ resp' = NoResp /\ waiting' = FALSE
        /\ results' = Append(results, C!Result)
        /\ UNCHANGED <<mx, conn, dialed, links, server, events, notified, call, rconn,
                       rresp, sconn>>
    BY <1>6 DEF C!TakeResponse, C!link
  <2>2. ResultsTypes' /\ AnswerIsOurs'
    BY <1>0, <1>1, <2>1, ResultAppended
  <2>3. /\ conn \in Spoiled => conn \in Spoiled'
        /\ conn \notin Spoiled /\ ~notified => conn \in Spoiled'
    BY <1>0, <2>1, ResultSpoils
  <2>4. ClientTypes' /\ LockHeld' /\ NewConns' /\ StoppedIsReset' /\ RespIsOurs'
    BY <1>0, <2>1
  <2>5. Quiet'
    <3>1. CASE conn' \in Spoiled'
      BY <3>1
    <3>2. CASE conn' \notin Spoiled'
      <4>1. conn \notin Spoiled /\ notified
        BY <2>1, <2>3, <3>2
      <4>2. Quiet
        BY <1>0, <2>1, <4>1
      <4> QED BY <2>1, <4>1, <4>2
    <3> QED BY <3>1, <3>2
  <2>6. OnlyOurs' /\ QuietBetween'
    BY <2>1, <2>5
  <2> QED BY <2>2, <2>4, <2>6
<1>7. CASE C!TakeConnection
  <2>0. \/ conn' = NoConn /\ upc' = "return" /\ results' = Append(results, C!Result)
        \/ conn' = conn /\ upc' = "stop_return" /\ results' = results
    BY <1>7 DEF C!TakeConnection
  <2>1. /\ upc = "woken" /\ waiting' = FALSE
        /\ UNCHANGED <<mx, dialed, links, server, events, resp, notified, call, rconn,
                       rresp, sconn>>
    BY <1>7 DEF C!TakeConnection
  <2>2. ResultsTypes' /\ AnswerIsOurs'
    BY <1>0, <1>1, <1>2, <2>0, <2>1, ResultAppended
  <2>3. conn' = conn => Spoiled' = Spoiled \/ conn' = NoConn
    BY <1>2, <2>0
  <2>4. ClientTypes'
    <3>1. waiting' \in BOOLEAN /\ notified' \in BOOLEAN
      BY <1>0, <2>1
    <3>2. conn' \in 0 .. dialed' /\ dialed' \in 0 .. MaxConns
      BY <1>0, <2>0, <2>1
    <3>3. /\ links' \in [C!Conns -> {"none", "started", "stopping", "ended"}]
          /\ server' \in [C!Conns -> Seq(Nat)]
          /\ rconn' \in 0 .. dialed' /\ sconn' \in 0 .. dialed'
          /\ events' \subseteq C!Conns
          /\ call' \in Nat /\ resp' \in Nat /\ rresp' \in Nat
      BY <1>0, <2>1
    <3>4. upc' \in {"idle", "reuse", "dial", "hung", "return"} \cup Connected
      BY <1>0, <2>0, <2>1
    <3> QED BY <3>1, <3>2, <3>3, <3>4
  <2>5. LockHeld' /\ NewConns' /\ RespIsOurs' /\ StoppedIsReset'
    BY <1>0, <2>0, <2>1
  <2>6. OnlyOurs' /\ QuietBetween'
    BY <1>0, <2>0, <2>1, <2>3
  <2> QED BY <2>2, <2>4, <2>5, <2>6
<1>8. CASE C!Return
  <2>1. Spoiled' = Spoiled /\ ResultsTypes' /\ AnswerIsOurs'
    BY <1>2, <1>8 DEF C!Return
  <2> QED BY <1>0, <1>8, <2>1 DEF C!Return, C!link, C!answer
<1> QED BY <1>3, <1>4, <1>5, <1>6, <1>7, <1>8

\* What the pollers are handed, and what they hand on.
LEMMA PollerStep ==
    ASSUME ClientInv,
           \/ \E c \in C!Conns : C!Response(c) \/ C!PeerCloses(c) \/ C!StoppedEvent(c)
           \/ C!ReadPollerNotifies \/ C!SendPollerNotifies
    PROVE  ClientInv'
<1>0. /\ ClientTypes /\ LockHeld /\ NewConns /\ StoppedIsReset /\ OnlyOurs
      /\ QuietBetween /\ RespIsOurs /\ ResultsTypes /\ AnswerIsOurs
  BY DEF ClientInv
<1>6. Spoiled' = Spoiled /\ ResultsTypes' /\ AnswerIsOurs'
  <2>1. UNCHANGED <<results, dialed>> /\ dialed \in Nat
    BY <1>0, ClientAssumption
    DEF ClientTypes, C!Response, C!PeerCloses, C!StoppedEvent,
        C!ReadPollerNotifies, C!SendPollerNotifies, C!link
  <2> QED BY <1>0, <2>1, SpoiledStays
<1> USE <1>6 DEF ClientInv, ClientTypes, LockHeld, NewConns, StoppedIsReset, OnlyOurs, Quiet,
            QuietBetween, RespIsOurs, Connected,
            C!Conns, NoConn, NoResp, C!NoConn, C!NoResp
<1>1. ASSUME NEW c \in C!Conns, C!Response(c)
      PROVE  ClientInv'
  <2>1. /\ conn = c /\ conn # NoConn /\ rconn = 0 /\ links[c] = "started" /\ server[c] # <<>>
        /\ server' = [server EXCEPT ![c] = Tail(server[c])]
        /\ rconn' = c /\ rresp' = Head(server[c])
        /\ UNCHANGED <<mx, conn, dialed, links, events, waiting, resp, notified, upc,
                       call, kind, sconn, results>>
    BY <1>0, <1>1 DEF C!Response, C!answer
  <2>2. server[c] \in Seq(Nat) /\ Tail(server[c]) \in Seq(Nat) /\ Head(server[c]) \in Nat
    BY <1>0, <2>1
  <2>3. ASSUME c \notin Spoiled
        PROVE  /\ server'[c] = <<>> /\ rresp' = call
               /\ upc \in {"wait", "waiting", "woken", "timeout", "stop_return", "reset_return"}
               /\ ~(upc \in {"waiting", "woken"} /\ notified)
    <3>1. server[c] = <<call>>
      BY <1>0, <2>1, <2>3
    <3>2. Tail(server[c]) = <<>> /\ Head(server[c]) = call
      BY <3>1
    <3>3. ~Quiet
      BY <2>1, <2>3
    <3> QED BY <1>0, <2>1, <3>2, <3>3
  <2>4. ClientTypes' /\ LockHeld' /\ RespIsOurs' /\ NewConns' /\ StoppedIsReset'
    BY <1>0, <2>1, <2>2
  <2>5. OnlyOurs'
    BY <1>0, <2>1, <2>3
  <2>6. QuietBetween'
    BY <1>0, <2>1, <2>3
  <2> QED BY <2>4, <2>5, <2>6
<1>2. ASSUME NEW c \in C!Conns, C!PeerCloses(c)
      PROVE  ClientInv'
  BY <1>0, <1>2 DEF C!PeerCloses, C!answer
<1>3. ASSUME NEW c \in C!Conns, C!StoppedEvent(c)
      PROVE  ClientInv'
  BY <1>0, <1>3 DEF C!StoppedEvent, C!answer
<1>4. CASE C!ReadPollerNotifies
  <2>1. /\ mx = "free" /\ rconn # 0 /\ rconn' = 0 /\ rresp' = 0
        /\ UNCHANGED <<mx, conn, dialed, links, server, events, waiting, upc, call,
                       sconn, results>>
    BY <1>4 DEF C!ReadPollerNotifies, C!Notify, C!link
  <2>2. CASE waiting /\ conn = rconn /\ resp' = rresp /\ notified' = TRUE
    <3>1. Quiet' /\ (conn \notin Spoiled => rresp \in {NoResp, call})
      BY <1>0, <2>1, <2>2
    <3>2. ClientTypes' /\ ResultsTypes' /\ LockHeld' /\ AnswerIsOurs' /\ RespIsOurs'
      BY <1>0, <2>1, <2>2, <3>1
    <3>3. NewConns' /\ StoppedIsReset' /\ OnlyOurs'
      BY <1>0, <2>1
    <3>4. QuietBetween'
      BY <1>0, <2>1, <3>1
    <3> QED BY <3>2, <3>3, <3>4
  <2>3. CASE UNCHANGED <<resp, notified>>
    <3>1. ClientTypes' /\ ResultsTypes' /\ LockHeld' /\ AnswerIsOurs' /\ RespIsOurs'
      BY <1>0, <2>1, <2>3
    <3>2. NewConns' /\ StoppedIsReset' /\ OnlyOurs' /\ QuietBetween'
      BY <1>0, <2>1, <2>3
    <3> QED BY <3>1, <3>2
  <2> QED BY <1>4, <2>2, <2>3 DEF C!ReadPollerNotifies, C!Notify
<1>5. CASE C!SendPollerNotifies
  BY <1>0, <1>5 DEF C!SendPollerNotifies, C!Notify, C!link
<1> QED BY <1>1, <1>2, <1>3, <1>4, <1>5

LEMMA NextClientInv == ClientInv /\ [C!Next]_client => ClientInv'
<1> SUFFICES ASSUME ClientInv, [C!Next]_client PROVE ClientInv'
  OBVIOUS
<1>1. CASE UNCHANGED client
  BY <1>1 DEF client, ClientInv, ClientTypes, LockHeld, NewConns, StoppedIsReset, OnlyOurs,
              Quiet, QuietBetween, RespIsOurs, ResultsTypes, Spoiled, AnswerIsOurs,
              C!AnswerIsOurs
<1>2. CASE C!Next
  BY <1>2, UserStep, WaitStep, PollerStep DEF C!Next, C!Calling
<1> QED BY <1>1, <1>2

-----------------------------------------------------------------------------
(* The http connection.                                                    *)

\* The poller that calls error_cb has moved the state to its end, and nobody
\* moves it from there.
ErrorInv ==
    /\ told \in Seq({"none", "closed", "error"}) /\ Len(told) <= 1
    /\ fpc \in {"idle", "started", "upgraded"}
    /\ told # <<>> => state = "error" /\ fpc = "idle"
    /\ fpc # "idle" => state = "error" /\ told = <<>>

LEMMA InitErrorInv == Init => ErrorInv
  BY EmptySeq DEF Init, ErrorInv

LEMMA ErrorFrame ==
    ASSUME ErrorInv, UNCHANGED <<state, fpc, told>>
    PROVE  ErrorInv'
  BY DEF ErrorInv

LEMMA NextErrorInv == ErrorInv /\ [Next]_vars => ErrorInv'
<1> SUFFICES ASSUME ErrorInv, [Next]_vars PROVE ErrorInv'
  OBVIOUS
<1>1. CASE StartHttp
  BY <1>1 DEF StartHttp, ErrorInv
<1>2. CASE StartWebsocket
  BY <1>2 DEF StartWebsocket, ErrorInv
<1>3. CASE FinalState
  BY <1>3 DEF FinalState, ErrorInv
<1>4. CASE ErrorCallback
  <2>1. /\ fpc \in {"started", "upgraded"} /\ fpc' = "idle" /\ state' = state
        /\ told = <<>> /\ state = "error"
    BY <1>4 DEF ErrorCallback, ErrorInv
  <2>2. PICK t \in {"none", "closed", "error"} : told' = Append(told, t)
    BY <1>4 DEF ErrorCallback
  <2>3. Append(told, t) = <<t>>
    BY <2>1
  <2> QED BY <2>1, <2>2, <2>3 DEF ErrorInv
<1>5. CASE AsyncReadPacket \/ WebsocketStarted \/ Stop
           \/ PeerSends \/ PeerSendsJunk \/ PeerSendsFrame \/ PeerCloses
  BY <1>5, ErrorFrame
  DEF AsyncReadPacket, WebsocketStarted, Stop, PeerSends, PeerSendsJunk, PeerSendsFrame,
      PeerCloses
<1>6. CASE Reading
  BY <1>6, ErrorFrame DEF Reading, OnRead, PacketCallback, FrameCallback, ReadAgain, ReadEnds
<1>7. CASE UNCHANGED vars
  BY <1>7, ErrorFrame DEF vars
<1> QED BY <1>1, <1>2, <1>3, <1>4, <1>5, <1>6, <1>7 DEF Next, Ending

LEMMA ErrorInvOnce == ErrorInv => OneError
  BY DEF ErrorInv, OneError

-----------------------------------------------------------------------------
(* The udp transport.                                                      *)

\* The variables that take part.
UdpTypes ==
    /\ mode \in {"once", "loop"}
    /\ rstate \in {"none", "pending"}
    /\ ustate \in {"none", "starting", "started", "stopping", "stopped", "error"}
    /\ spc \in {"idle", "stopped_cb"}
    /\ utold \in Nat

\* The state is stopped before stopped_cb is called and after it.
UdpEnding ==
    /\ spc = "stopped_cb" => ustate = "stopped" /\ utold = 0
    /\ utold # 0 => utold = 1 /\ ustate = "stopped"
    /\ supc = "starting" => ustate = "starting"

UdpInv == UdpTypes /\ UdpEnding /\ U!ReadChance

LEMMA InitUdpInv == U!Init => UdpInv
<1> SUFFICES ASSUME U!Init PROVE UdpInv
  OBVIOUS
<1>1. /\ mode \in {"once", "loop"} /\ ustate = "none" /\ rstate = "none"
      /\ supc = "idle" /\ spc = "idle" /\ utold = 0
  BY DEF U!Init
<1> QED BY <1>1 DEF UdpInv, UdpTypes, UdpEnding, U!ReadChance

\* start, stop and the send poller.
LEMMA EndStep ==
    ASSUME UdpInv, U!Start \/ U!Started \/ U!Stop \/ U!StopPost \/ U!ChannelEvent
    PROVE  UdpInv'
<1>0. UdpTypes /\ UdpEnding /\ U!ReadChance
  BY DEF UdpInv
<1> USE DEF UdpInv, UdpTypes, UdpEnding, U!ReadChance
<1>1. CASE U!Start
  BY <1>0, <1>1 DEF U!Start
<1>2. CASE U!Started
  BY <1>0, <1>2 DEF U!Started
<1>3. CASE U!Stop
  BY <1>0, <1>3 DEF U!Stop
<1>4. CASE U!StopPost
  BY <1>0, <1>4 DEF U!StopPost
<1>5. CASE U!ChannelEvent
  BY <1>0, <1>5 DEF U!ChannelEvent
<1> QED BY <1>1, <1>2, <1>3, <1>4, <1>5

\* async_read and the read poller.
LEMMA ReadStep ==
    ASSUME UdpInv, U!AsyncRead \/ U!AsyncReadChange \/ U!AsyncReadTrack \/ U!Polling
    PROVE  UdpInv'
<1>0. UdpTypes /\ UdpEnding /\ U!ReadChance
  BY DEF UdpInv
<1> USE DEF UdpInv, UdpTypes, UdpEnding, U!ReadChance
<1>1. CASE U!AsyncRead
  BY <1>0, <1>1 DEF U!AsyncRead
<1>2. CASE U!AsyncReadChange
  BY <1>0, <1>2 DEF U!AsyncReadChange
<1>3. CASE U!AsyncReadTrack
  BY <1>0, <1>3 DEF U!AsyncReadTrack
<1>4. CASE U!ReadEvent
  BY <1>0, <1>4 DEF U!ReadEvent
<1>5. CASE U!Read
  BY <1>0, <1>5 DEF U!Read
<1>6. CASE U!ReadTrack
  BY <1>0, <1>6 DEF U!ReadTrack
<1>7. CASE U!ReadAgain
  BY <1>0, <1>7 DEF U!ReadAgain
<1>8. CASE U!ReadCallback
  BY <1>0, <1>8 DEF U!ReadCallback
<1> QED BY <1>1, <1>2, <1>3, <1>4, <1>5, <1>6, <1>7, <1>8 DEF U!Polling

LEMMA NextUdpInv == UdpInv /\ [U!Next]_udp => UdpInv'
<1> SUFFICES ASSUME UdpInv, [U!Next]_udp PROVE UdpInv'
  OBVIOUS
<1>0. UdpTypes /\ UdpEnding /\ U!ReadChance
  BY DEF UdpInv
<1>1. CASE U!SendTo
  BY <1>0, <1>1 DEF U!SendTo, UdpInv, UdpTypes, UdpEnding, U!ReadChance
<1>2. CASE U!Arrives
  BY <1>0, <1>2 DEF U!Arrives, UdpInv, UdpTypes, UdpEnding, U!ReadChance
<1>3. CASE UNCHANGED udp
  BY <1>0, <1>3 DEF udp, UdpInv, UdpTypes, UdpEnding, U!ReadChance
<1> QED BY <1>1, <1>2, <1>3, EndStep, ReadStep DEF U!Next

-----------------------------------------------------------------------------
(* The specification in which one of them moves.                           *)

LEMMA MCSteps == [MCNext]_<<part, vars, client, udp>>
                     => [Next]_vars /\ [C!Next]_client /\ [U!Next]_udp
  BY DEF MCNext

\* A request or a websocket gets the answer to itself, also after one that timed
\* out and whose answer came late, unless wait_for has returned for no reason in
\* it or in an earlier call on its connection (client.cpp: do_request,
\* open_websocket, __notify_response).
THEOREM AnswerReturned == MCSpec => []AnswerIsOurs
<1>1. MCInit => ClientInv
  BY InitClientInv DEF MCInit
<1>2. ClientInv /\ [MCNext]_<<part, vars, client, udp>> => ClientInv'
  BY NextClientInv, MCSteps
<1>3. ClientInv => AnswerIsOurs
  BY DEF ClientInv
<1> QED BY <1>1, <1>2, <1>3, PTL DEF MCSpec

\* The owner of a connection hears of its end once, after the state says so,
\* whether it was upgraded or not and whichever of stop and the peer was first
\* (connection.cpp: on_stopped, on_disconnected).
THEOREM ErrorOnce == MCSpec => []OneError
<1>1. MCInit => ErrorInv
  BY InitErrorInv DEF MCInit
<1>2. ErrorInv /\ [MCNext]_<<part, vars, client, udp>> => ErrorInv'
  BY NextErrorInv, MCSteps
<1> QED BY <1>1, <1>2, ErrorInvOnce, PTL DEF MCSpec

\* on_read_event and async_read: a pending read is with the tracker, the caller
\* or the read poller, and stopped_cb is called at most once, when the
\* transport has stopped (udp_transport.cpp, base_transport.cpp).
THEOREM PendingReadHasServer == MCSpec => [](U!ReadChance /\ utold <= 1)
<1>1. MCInit => UdpInv
  BY InitUdpInv DEF MCInit
<1>2. UdpInv /\ [MCNext]_<<part, vars, client, udp>> => UdpInv'
  BY NextUdpInv, MCSteps
<1>3. UdpInv => U!ReadChance /\ utold <= 1
  BY DEF UdpInv, UdpTypes, UdpEnding
<1> QED BY <1>1, <1>2, <1>3, PTL DEF MCSpec
=============================================================================
