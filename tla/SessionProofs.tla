---------------------------- MODULE SessionProofs ----------------------------
(***************************************************************************)
(* Theorems about module SessionLifecycle, for any number of requests, any *)
(* set of MCP servers, with and without Redis.                             *)
(*                                                                         *)
(* Whatever is open or there has somebody to clean it up until it is       *)
(* cleaned up, or came when nobody was left: this is what every step of a  *)
(* request, of the watchdog and of DELETE keeps true, in any order.        *)
(***************************************************************************)
EXTENDS SessionLifecycle, TLAPS

\* Nobody works in a session, or ends it, before it is open.
Opened ==
  /\ session \in {"none", "refused"} =>
       /\ \A e \in Enders : teardown[e] = "none"
       /\ \A r \in Requests : request[r] = "idle"
  /\ teardown["close"] \in Teardown \cup {"none", "ended"}
  /\ teardown["close"] # "none" => session = "gone"

\* A request speaks once, its run answers once, and an answer is in the history when the
\* request is done.
Spoken ==
  /\ \A entry \in BagToSet(history) : history[entry] = 1
  /\ \A r \in Requests :
       /\ <<"user", r>> \in BagToSet(history) => request[r] # "idle"
       /\ <<"agent", r>> \in BagToSet(history) => request[r] = "done"
  /\ \A r \in answered : request[r] \in {"finalize", "done"}
  /\ \A r \in answered :
       session = "open" /\ request[r] = "done" => <<"agent", r>> \in BagToSet(history)

\* A key that is gone was set before the last activity.
KeyTells ==
  /\ key = "stale" => unrefreshed
  /\ key = "none" /\ teardown["watchdog"] \in {"asleep", "check"} =>
       last_active = "old" \/ unrefreshed \/ session = "gone"

\* What the two that end a session can clean up, and the stage at which they do.
Tidied(there, name, stage) == there => name \in late \/ Attended(stage)

\* Everything that is open or there is attended to, or came too late.
LookedAfter ==
  /\ session \in {"none", "refused"} => clients = {} /\ tmp_dir \in {"none", "removed", "kept"}
  /\ Tidied("mcp_fs" \in clients, "mcp_fs", "mcp")
  /\ Tidied("sandbox" \in clients, "sandbox", "sandbox")
  /\ Tidied(tmp_dir \in {"present", "revived"}, "tmp_dir", "rmtree")
  /\ session \in {"open", "gone"} => tmp_dir # "none"

IInv == TypeOK /\ Opened /\ Spoken /\ KeyTells /\ LookedAfter

-----------------------------------------------------------------------------
(* The history *)

\* One entry more in the history.
LEMMA Said ==
  ASSUME IsABag(history), NEW role, NEW r, Say(role, r), <<role, r>> \notin BagToSet(history)
  PROVE  /\ IsABag(history')
         /\ BagToSet(history') = BagToSet(history) \cup {<<role, r>>}
         /\ \A entry \in BagToSet(history) : history'[entry] = history[entry]
         /\ history'[<<role, r>>] = 1
<1> DEFINE said == <<role, r>>
<1>1. said \notin DOMAIN history
  BY DEF BagToSet
<1>2. history' = [entry \in DOMAIN history \cup {said} |->
                    (IF entry \in DOMAIN history THEN history[entry] ELSE 0)
                    + (IF entry \in {said} THEN 1 ELSE 0)]
  BY DEF Say, (+), SetToBag
<1>3. \A entry \in DOMAIN history : history[entry] \in Nat /\ history[entry] > 0
  BY DEF IsABag
<1> HIDE DEF said
<1>4. DOMAIN history' = DOMAIN history \cup {said}
  BY <1>2
<1>5. \A entry \in DOMAIN history : history'[entry] = history[entry]
  BY <1>1, <1>2, <1>3
<1>6. history'[said] = 1
  BY <1>1, <1>2
<1>7. IsABag(history')
  <2>1. \A entry \in DOMAIN history' : history'[entry] \in {n \in Nat : n > 0}
    BY <1>3, <1>4, <1>5, <1>6
  <2>2. history' = [entry \in DOMAIN history' |-> history'[entry]]
    BY <1>2, <1>4
  <2> QED
    BY <2>1, <2>2 DEF IsABag
<1> QED
  BY <1>4, <1>5, <1>6, <1>7 DEF BagToSet, said

-----------------------------------------------------------------------------
(* One step *)

\* Nothing leaves its type.
LEMMA NextTypeOK ==
  ASSUME TypeOK, Spoken, [Next]_vars
  PROVE  TypeOK'
<1> USE DEF disk, clock, Goto, To, TypeOK, Entry, Enders, Clients, TeardownControl,
     Teardown
<1>1. CASE CreateSession
  BY <1>1 DEF CreateSession
<1>2. CASE CreateFails
  BY <1>2 DEF CreateFails
<1>3. CASE StartWatchdog
  BY <1>3 DEF StartWatchdog, Refresh
<1>4. ASSUME NEW r \in Requests, Message(r)
      PROVE  TypeOK'
  <2>1. <<"user", r>> \notin BagToSet(history)
    BY <1>4 DEF Message, Accept, Spoken
  <2>2. IsABag(history') /\ BagToSet(history') = BagToSet(history) \cup {<<"user", r>>}
    BY <1>4, <2>1, Said DEF Message, Accept
  <2> QED
    BY <1>4, <2>2 DEF Message, Accept
<1>5. ASSUME NEW r \in Requests, Chat(r)
      PROVE  TypeOK'
  <2>1. <<"user", r>> \notin BagToSet(history)
    BY <1>5 DEF Chat, Accept, Spoken
  <2>2. IsABag(history') /\ BagToSet(history') = BagToSet(history) \cup {<<"user", r>>}
    BY <1>5, <2>1, Said DEF Chat, Accept
  <2> QED
    BY <1>5, <2>2 DEF Chat, Accept
<1>6. ASSUME NEW r \in Requests, UseWorkspace(r)
      PROVE  TypeOK'
  BY <1>6 DEF UseWorkspace, MakeDirectory
<1>25. ASSUME NEW r \in Requests, ConnectServer(r)
      PROVE  TypeOK'
  BY <1>25 DEF ConnectServer, OpenClient
<1>26. ASSUME NEW r \in Requests, StartSandbox(r)
      PROVE  TypeOK'
  BY <1>26 DEF StartSandbox, OpenClient
<1>7. ASSUME NEW r \in Requests, RefreshKey(r)
      PROVE  TypeOK'
  BY <1>7 DEF RefreshKey, Refresh
<1>8. ASSUME NEW r \in Requests, DispatchRun(r)
      PROVE  TypeOK'
  BY <1>8 DEF DispatchRun
<1>9. ASSUME NEW r \in Requests, DispatchChat(r)
      PROVE  TypeOK'
  BY <1>9 DEF DispatchChat, Refresh
<1>10. ASSUME NEW r \in Requests, RunReturns(r)
      PROVE  TypeOK'
  BY <1>10 DEF RunReturns, MakeDirectory
<1>11. ASSUME NEW r \in Requests, RunRaises(r)
      PROVE  TypeOK'
  BY <1>11 DEF RunRaises
<1>12. ASSUME NEW r \in Requests, Finalize(r)
      PROVE  TypeOK'
  <2>1. CASE Say("agent", r)
    <3>1. <<"agent", r>> \notin BagToSet(history)
      BY <1>12 DEF Finalize, Spoken
    <3>2. IsABag(history') /\ BagToSet(history') = BagToSet(history) \cup {<<"agent", r>>}
      BY <2>1, <3>1, Said
    <3> QED
      BY <1>12, <3>2 DEF Finalize
  <2>2. CASE UNCHANGED history
    BY <1>12, <2>2 DEF Finalize
  <2> QED
    BY <1>12, <2>1, <2>2 DEF Finalize
<1>13. ASSUME NEW r \in Requests, ChatEnds(r)
      PROVE  TypeOK'
  <2>1. CASE Say("agent", r)
    <3>1. <<"agent", r>> \notin BagToSet(history)
      BY <1>13 DEF ChatEnds, Spoken
    <3>2. IsABag(history') /\ BagToSet(history') = BagToSet(history) \cup {<<"agent", r>>}
      BY <2>1, <3>1, Said
    <3> QED
      BY <1>13, <3>2 DEF ChatEnds
  <2>2. CASE UNCHANGED history
    BY <1>13, <2>2 DEF ChatEnds
  <2> QED
    BY <1>13, <2>1, <2>2 DEF ChatEnds
<1>14. CASE Idle
  BY <1>14 DEF Idle
<1>15. CASE KeyExpires
  BY <1>15 DEF KeyExpires
<1>16. CASE Wake
  BY <1>16 DEF Wake
<1>17. CASE Check
  BY <1>17 DEF Check, AfterCheck
<1>18. CASE Close
  BY <1>18 DEF Close
<1>19. CASE Pop
  BY <1>19 DEF Pop
<1>20. ASSUME NEW e \in Enders, ClearKey(e)
      PROVE  TypeOK'
  BY <1>20 DEF ClearKey
<1>21. ASSUME NEW e \in Enders, CloseMcp(e)
      PROVE  TypeOK'
  BY <1>21 DEF CloseMcp
<1>22. ASSUME NEW e \in Enders, CloseSandbox(e)
      PROVE  TypeOK'
  BY <1>22 DEF CloseSandbox, SandboxClosed
<1>23. ASSUME NEW e \in Enders, RemoveWorkspace(e)
      PROVE  TypeOK'
  BY <1>23 DEF RemoveWorkspace
<1>24. CASE UNCHANGED vars
  BY <1>24 DEF vars
<1> QED
  BY <1>1, <1>2, <1>3, <1>4, <1>5, <1>6, <1>7, <1>8, <1>9, <1>10, <1>11, <1>12, <1>13,
       <1>14, <1>15, <1>16, <1>17, <1>18, <1>19, <1>20, <1>21, <1>22, <1>23, <1>24, <1>25,
       <1>26 DEF Next, RequestStep, WatchdogStep, TeardownStep, Enders

\* A session is opened once, closed once, and used in between.
LEMMA NextOpened ==
  ASSUME TypeOK, Opened, [Next]_vars
  PROVE  Opened'
<1> USE DEF disk, clock, Goto, To, TypeOK, Entry, Enders, Clients, TeardownControl,
     Teardown, Opened
<1>1. CASE CreateSession
  BY <1>1 DEF CreateSession
<1>2. CASE CreateFails
  BY <1>2 DEF CreateFails
<1>3. CASE StartWatchdog
  BY <1>3 DEF StartWatchdog, Refresh
<1>4. ASSUME NEW r \in Requests, Message(r)
      PROVE  Opened'
  BY <1>4 DEF Message, Accept
<1>5. ASSUME NEW r \in Requests, Chat(r)
      PROVE  Opened'
  BY <1>5 DEF Chat, Accept
<1>6. ASSUME NEW r \in Requests, UseWorkspace(r)
      PROVE  Opened'
  BY <1>6 DEF UseWorkspace, MakeDirectory
<1>25. ASSUME NEW r \in Requests, ConnectServer(r)
      PROVE  Opened'
  BY <1>25 DEF ConnectServer, OpenClient
<1>26. ASSUME NEW r \in Requests, StartSandbox(r)
      PROVE  Opened'
  BY <1>26 DEF StartSandbox, OpenClient
<1>7. ASSUME NEW r \in Requests, RefreshKey(r)
      PROVE  Opened'
  BY <1>7 DEF RefreshKey, Refresh
<1>8. ASSUME NEW r \in Requests, DispatchRun(r)
      PROVE  Opened'
  BY <1>8 DEF DispatchRun
<1>9. ASSUME NEW r \in Requests, DispatchChat(r)
      PROVE  Opened'
  BY <1>9 DEF DispatchChat, Refresh
<1>10. ASSUME NEW r \in Requests, RunReturns(r)
      PROVE  Opened'
  BY <1>10 DEF RunReturns, MakeDirectory
<1>11. ASSUME NEW r \in Requests, RunRaises(r)
      PROVE  Opened'
  BY <1>11 DEF RunRaises
<1>12. ASSUME NEW r \in Requests, Finalize(r)
      PROVE  Opened'
  BY <1>12 DEF Finalize
<1>13. ASSUME NEW r \in Requests, ChatEnds(r)
      PROVE  Opened'
  BY <1>13 DEF ChatEnds
<1>14. CASE Idle
  BY <1>14 DEF Idle
<1>15. CASE KeyExpires
  BY <1>15 DEF KeyExpires
<1>16. CASE Wake
  BY <1>16 DEF Wake
<1>17. CASE Check
  BY <1>17 DEF Check, AfterCheck, HasExpired, IsActive
<1>18. CASE Close
  BY <1>18 DEF Close
<1>19. CASE Pop
  BY <1>19 DEF Pop
<1>20. ASSUME NEW e \in Enders, ClearKey(e)
      PROVE  Opened'
  BY <1>20 DEF ClearKey
<1>21. ASSUME NEW e \in Enders, CloseMcp(e)
      PROVE  Opened'
  BY <1>21 DEF CloseMcp
<1>22. ASSUME NEW e \in Enders, CloseSandbox(e)
      PROVE  Opened'
  BY <1>22 DEF CloseSandbox, SandboxClosed
<1>23. ASSUME NEW e \in Enders, RemoveWorkspace(e)
      PROVE  Opened'
  BY <1>23 DEF RemoveWorkspace
<1>24. CASE UNCHANGED vars
  BY <1>24 DEF vars
<1> QED
  BY <1>1, <1>2, <1>3, <1>4, <1>5, <1>6, <1>7, <1>8, <1>9, <1>10, <1>11, <1>12, <1>13,
       <1>14, <1>15, <1>16, <1>17, <1>18, <1>19, <1>20, <1>21, <1>22, <1>23, <1>24, <1>25,
       <1>26 DEF Next, RequestStep, WatchdogStep, TeardownStep, Enders

\* Whoever speaks has not spoken before.
LEMMA NextSpoken ==
  ASSUME TypeOK, Opened, Spoken, [Next]_vars
  PROVE  Spoken'
<1> USE DEF disk, clock, Goto, To, TypeOK, Opened, Spoken
<1>1. CASE CreateSession
  BY <1>1 DEF CreateSession
<1>2. CASE CreateFails
  BY <1>2 DEF CreateFails
<1>3. CASE StartWatchdog
  BY <1>3 DEF StartWatchdog, Refresh
<1>4. ASSUME NEW r \in Requests, Message(r)
      PROVE  Spoken'
  <2>1. <<"user", r>> \notin BagToSet(history)
    BY <1>4 DEF Message, Accept, Spoken
  <2>2. /\ BagToSet(history') = BagToSet(history) \cup {<<"user", r>>}
        /\ \A entry \in BagToSet(history) : history'[entry] = history[entry]
        /\ history'[<<"user", r>>] = 1
    BY <1>4, <2>1, Said DEF Message, Accept, TypeOK
  <2> QED
    BY <1>4, <2>2 DEF Message, Accept
<1>5. ASSUME NEW r \in Requests, Chat(r)
      PROVE  Spoken'
  <2>1. <<"user", r>> \notin BagToSet(history)
    BY <1>5 DEF Chat, Accept, Spoken
  <2>2. /\ BagToSet(history') = BagToSet(history) \cup {<<"user", r>>}
        /\ \A entry \in BagToSet(history) : history'[entry] = history[entry]
        /\ history'[<<"user", r>>] = 1
    BY <1>5, <2>1, Said DEF Chat, Accept, TypeOK
  <2> QED
    BY <1>5, <2>2 DEF Chat, Accept
<1>6. ASSUME NEW r \in Requests, UseWorkspace(r)
      PROVE  Spoken'
  BY <1>6 DEF UseWorkspace, MakeDirectory
<1>25. ASSUME NEW r \in Requests, ConnectServer(r)
      PROVE  Spoken'
  BY <1>25 DEF ConnectServer, OpenClient
<1>26. ASSUME NEW r \in Requests, StartSandbox(r)
      PROVE  Spoken'
  BY <1>26 DEF StartSandbox, OpenClient
<1>7. ASSUME NEW r \in Requests, RefreshKey(r)
      PROVE  Spoken'
  BY <1>7 DEF RefreshKey, Refresh
<1>8. ASSUME NEW r \in Requests, DispatchRun(r)
      PROVE  Spoken'
  BY <1>8 DEF DispatchRun
<1>9. ASSUME NEW r \in Requests, DispatchChat(r)
      PROVE  Spoken'
  BY <1>9 DEF DispatchChat, Refresh
<1>10. ASSUME NEW r \in Requests, RunReturns(r)
      PROVE  Spoken'
  BY <1>10 DEF RunReturns, MakeDirectory
<1>11. ASSUME NEW r \in Requests, RunRaises(r)
      PROVE  Spoken'
  BY <1>11 DEF RunRaises
<1>12. ASSUME NEW r \in Requests, Finalize(r)
      PROVE  Spoken'
  <2>1. CASE session = "open"
    <3>1. Say("agent", r) /\ <<"agent", r>> \notin BagToSet(history)
      BY <1>12, <2>1 DEF Finalize
    <3>2. /\ BagToSet(history') = BagToSet(history) \cup {<<"agent", r>>}
          /\ \A entry \in BagToSet(history) : history'[entry] = history[entry]
          /\ history'[<<"agent", r>>] = 1
      BY <3>1, Said
    <3> QED
      BY <1>12, <2>1, <3>2 DEF Finalize
  <2>2. CASE session # "open"
    BY <1>12, <2>2 DEF Finalize
  <2> QED
    BY <2>1, <2>2
<1>13. ASSUME NEW r \in Requests, ChatEnds(r)
      PROVE  Spoken'
  <2>1. CASE Say("agent", r)
    <3>1. <<"agent", r>> \notin BagToSet(history)
      BY <1>13 DEF ChatEnds
    <3>2. /\ BagToSet(history') = BagToSet(history) \cup {<<"agent", r>>}
          /\ \A entry \in BagToSet(history) : history'[entry] = history[entry]
          /\ history'[<<"agent", r>>] = 1
      BY <2>1, <3>1, Said
    <3> QED
      BY <1>13, <3>2 DEF ChatEnds
  <2>2. CASE UNCHANGED history
    BY <1>13, <2>2 DEF ChatEnds
  <2> QED
    BY <1>13, <2>1, <2>2 DEF ChatEnds
<1>14. CASE Idle
  BY <1>14 DEF Idle
<1>15. CASE KeyExpires
  BY <1>15 DEF KeyExpires
<1>16. CASE Wake
  BY <1>16 DEF Wake
<1>17. CASE Check
  BY <1>17 DEF Check, AfterCheck, HasExpired, IsActive
<1>18. CASE Close
  BY <1>18 DEF Close
<1>19. CASE Pop
  BY <1>19 DEF Pop
<1>20. ASSUME NEW e \in Enders, ClearKey(e)
      PROVE  Spoken'
  BY <1>20 DEF ClearKey
<1>21. ASSUME NEW e \in Enders, CloseMcp(e)
      PROVE  Spoken'
  BY <1>21 DEF CloseMcp
<1>22. ASSUME NEW e \in Enders, CloseSandbox(e)
      PROVE  Spoken'
  BY <1>22 DEF CloseSandbox, SandboxClosed
<1>23. ASSUME NEW e \in Enders, RemoveWorkspace(e)
      PROVE  Spoken'
  BY <1>23 DEF RemoveWorkspace
<1>24. CASE UNCHANGED vars
  BY <1>24 DEF vars
<1> QED
  BY <1>1, <1>2, <1>3, <1>4, <1>5, <1>6, <1>7, <1>8, <1>9, <1>10, <1>11, <1>12, <1>13,
       <1>14, <1>15, <1>16, <1>17, <1>18, <1>19, <1>20, <1>21, <1>22, <1>23, <1>24, <1>25,
       <1>26 DEF Next, RequestStep, WatchdogStep, TeardownStep, Enders

\* Only an ender removes a key that has not expired.
LEMMA NextKeyTells ==
  ASSUME TypeOK, Opened, KeyTells, [Next]_vars
  PROVE  KeyTells'
<1> USE DEF disk, clock, Goto, To, TypeOK, Entry, Enders, Clients, TeardownControl,
     Teardown, Opened, KeyTells
<1>1. CASE CreateSession
  BY <1>1 DEF CreateSession
<1>2. CASE CreateFails
  BY <1>2 DEF CreateFails
<1>3. CASE StartWatchdog
  BY <1>3 DEF StartWatchdog, Refresh
<1>4. ASSUME NEW r \in Requests, Message(r)
      PROVE  KeyTells'
  BY <1>4 DEF Message, Accept
<1>5. ASSUME NEW r \in Requests, Chat(r)
      PROVE  KeyTells'
  BY <1>5 DEF Chat, Accept
<1>6. ASSUME NEW r \in Requests, UseWorkspace(r)
      PROVE  KeyTells'
  BY <1>6 DEF UseWorkspace, MakeDirectory
<1>25. ASSUME NEW r \in Requests, ConnectServer(r)
      PROVE  KeyTells'
  BY <1>25 DEF ConnectServer, OpenClient
<1>26. ASSUME NEW r \in Requests, StartSandbox(r)
      PROVE  KeyTells'
  BY <1>26 DEF StartSandbox, OpenClient
<1>7. ASSUME NEW r \in Requests, RefreshKey(r)
      PROVE  KeyTells'
  BY <1>7 DEF RefreshKey, Refresh
<1>8. ASSUME NEW r \in Requests, DispatchRun(r)
      PROVE  KeyTells'
  BY <1>8 DEF DispatchRun
<1>9. ASSUME NEW r \in Requests, DispatchChat(r)
      PROVE  KeyTells'
  BY <1>9 DEF DispatchChat, Refresh
<1>10. ASSUME NEW r \in Requests, RunReturns(r)
      PROVE  KeyTells'
  BY <1>10 DEF RunReturns, MakeDirectory
<1>11. ASSUME NEW r \in Requests, RunRaises(r)
      PROVE  KeyTells'
  BY <1>11 DEF RunRaises
<1>12. ASSUME NEW r \in Requests, Finalize(r)
      PROVE  KeyTells'
  BY <1>12 DEF Finalize
<1>13. ASSUME NEW r \in Requests, ChatEnds(r)
      PROVE  KeyTells'
  BY <1>13 DEF ChatEnds
<1>14. CASE Idle
  BY <1>14 DEF Idle
<1>15. CASE KeyExpires
  BY <1>15 DEF KeyExpires
<1>16. CASE Wake
  BY <1>16 DEF Wake
<1>17. CASE Check
  BY <1>17 DEF Check, AfterCheck, HasExpired, IsActive
<1>18. CASE Close
  BY <1>18 DEF Close
<1>19. CASE Pop
  BY <1>19 DEF Pop
<1>20. ASSUME NEW e \in Enders, ClearKey(e)
      PROVE  KeyTells'
  BY <1>20 DEF ClearKey
<1>21. ASSUME NEW e \in Enders, CloseMcp(e)
      PROVE  KeyTells'
  BY <1>21 DEF CloseMcp
<1>22. ASSUME NEW e \in Enders, CloseSandbox(e)
      PROVE  KeyTells'
  BY <1>22 DEF CloseSandbox, SandboxClosed
<1>23. ASSUME NEW e \in Enders, RemoveWorkspace(e)
      PROVE  KeyTells'
  BY <1>23 DEF RemoveWorkspace
<1>24. CASE UNCHANGED vars
  BY <1>24 DEF vars
<1> QED
  BY <1>1, <1>2, <1>3, <1>4, <1>5, <1>6, <1>7, <1>8, <1>9, <1>10, <1>11, <1>12, <1>13,
       <1>14, <1>15, <1>16, <1>17, <1>18, <1>19, <1>20, <1>21, <1>22, <1>23, <1>24, <1>25,
       <1>26 DEF Next, RequestStep, WatchdogStep, TeardownStep, Enders

\* Nobody passes a stage of the teardown without cleaning up what is there at that stage.
LEMMA NextLookedAfter ==
  ASSUME TypeOK, Opened, LookedAfter, [Next]_vars
  PROVE  LookedAfter'
<1> USE SessionAssumption DEF disk, clock, Goto, To, TypeOK, Entry, Enders, Clients,
     TeardownControl, Teardown, Opened, LookedAfter, Tidied, Attended, Before
<1>1. CASE CreateSession
  BY <1>1 DEF CreateSession
<1>2. CASE CreateFails
  BY <1>2 DEF CreateFails
<1>3. CASE StartWatchdog
  BY <1>3 DEF StartWatchdog, Refresh
<1>4. ASSUME NEW r \in Requests, Message(r)
      PROVE  LookedAfter'
  BY <1>4 DEF Message, Accept
<1>5. ASSUME NEW r \in Requests, Chat(r)
      PROVE  LookedAfter'
  BY <1>5 DEF Chat, Accept
<1>6. ASSUME NEW r \in Requests, UseWorkspace(r)
      PROVE  LookedAfter'
  BY <1>6 DEF UseWorkspace, MakeDirectory
<1>25. ASSUME NEW r \in Requests, ConnectServer(r)
      PROVE  LookedAfter'
  BY <1>25 DEF ConnectServer, OpenClient
<1>26. ASSUME NEW r \in Requests, StartSandbox(r)
      PROVE  LookedAfter'
  BY <1>26 DEF StartSandbox, OpenClient
<1>7. ASSUME NEW r \in Requests, RefreshKey(r)
      PROVE  LookedAfter'
  BY <1>7 DEF RefreshKey, Refresh
<1>8. ASSUME NEW r \in Requests, DispatchRun(r)
      PROVE  LookedAfter'
  BY <1>8 DEF DispatchRun
<1>9. ASSUME NEW r \in Requests, DispatchChat(r)
      PROVE  LookedAfter'
  BY <1>9 DEF DispatchChat, Refresh
<1>10. ASSUME NEW r \in Requests, RunReturns(r)
      PROVE  LookedAfter'
  BY <1>10 DEF RunReturns, MakeDirectory
<1>11. ASSUME NEW r \in Requests, RunRaises(r)
      PROVE  LookedAfter'
  BY <1>11 DEF RunRaises
<1>12. ASSUME NEW r \in Requests, Finalize(r)
      PROVE  LookedAfter'
  BY <1>12 DEF Finalize
<1>13. ASSUME NEW r \in Requests, ChatEnds(r)
      PROVE  LookedAfter'
  BY <1>13 DEF ChatEnds
<1>14. CASE Idle
  BY <1>14 DEF Idle
<1>15. CASE KeyExpires
  BY <1>15 DEF KeyExpires
<1>16. CASE Wake
  BY <1>16 DEF Wake
<1>17. CASE Check
  BY <1>17 DEF Check, AfterCheck
<1>18. CASE Close
  BY <1>18 DEF Close
<1>19. CASE Pop
  BY <1>19 DEF Pop
<1>20. ASSUME NEW e \in Enders, ClearKey(e)
      PROVE  LookedAfter'
  BY <1>20 DEF ClearKey
<1>21. ASSUME NEW e \in Enders, CloseMcp(e)
      PROVE  LookedAfter'
  BY <1>21 DEF CloseMcp
<1>22. ASSUME NEW e \in Enders, CloseSandbox(e)
      PROVE  LookedAfter'
  BY <1>22 DEF CloseSandbox, SandboxClosed
<1>23. ASSUME NEW e \in Enders, RemoveWorkspace(e)
      PROVE  LookedAfter'
  BY <1>23 DEF RemoveWorkspace
<1>24. CASE UNCHANGED vars
  BY <1>24 DEF vars
<1> QED
  BY <1>1, <1>2, <1>3, <1>4, <1>5, <1>6, <1>7, <1>8, <1>9, <1>10, <1>11, <1>12, <1>13,
       <1>14, <1>15, <1>16, <1>17, <1>18, <1>19, <1>20, <1>21, <1>22, <1>23, <1>24, <1>25,
       <1>26 DEF Next, RequestStep, WatchdogStep, TeardownStep, Enders

-----------------------------------------------------------------------------
(* Theorems *)

\* Before POST /api/session there is nothing.
LEMMA InitIInv == Init => IInv
<1> SUFFICES ASSUME Init
             PROVE  IInv
  OBVIOUS
<1>1. DOMAIN history = {} /\ IsABag(history)
  BY DEF Init, EmptyBag, SetToBag, IsABag
<1>2. TypeOK
  BY <1>1 DEF Init, TypeOK, BagToSet, TeardownControl
<1>3. Opened /\ KeyTells /\ LookedAfter
  BY DEF Init, Opened, KeyTells, LookedAfter, Tidied, Teardown, Enders
<1>4. Spoken
  BY <1>1 DEF Init, Spoken, BagToSet
<1> QED
  BY <1>2, <1>3, <1>4 DEF IInv

\* The conjuncts carry one another through every step.
LEMMA NextIInv == IInv /\ [Next]_vars => IInv'
BY NextTypeOK, NextOpened, NextSpoken, NextKeyTells, NextLookedAfter DEF IInv

\* IInv holds in every reachable state.
THEOREM SessionInvariant == Spec => []IInv
BY InitIInv, NextIInv, PTL DEF Spec

\* Every variable of the session keeps its type.
THEOREM SessionTypes == Spec => []TypeOK
<1>1. IInv => TypeOK
  BY DEF IInv
<1> QED
  BY <1>1, SessionInvariant, PTL

\* The history that the runs read: no message or answer is in it twice, and every answer of a
\* run whose session is still there is.
THEOREM HistoryComplete == Spec => []ConversationKept
<1>1. IInv => ConversationKept
  BY DEF IInv, ConversationKept, Spoken, BagIn
<1> QED
  BY <1>1, SessionInvariant, PTL

\* The watchdog: a session in use is ended by a lost or a late refresh of its key, never by a
\* key that merely expired, with Redis or without.
THEOREM WatchdogSpares == Spec => SparedIfActive
<1>1. IInv /\ [Next]_vars =>
        [teardown["watchdog"] = "check" /\ teardown'["watchdog"] = "key"
           => last_active = "old" \/ unrefreshed \/ session = "gone"]_vars
  <2> SUFFICES ASSUME IInv, [Next]_vars,
                      teardown["watchdog"] = "check", teardown'["watchdog"] = "key"
               PROVE  last_active = "old" \/ unrefreshed \/ session = "gone"
    OBVIOUS
  <2> USE DEF IInv, TypeOK, Opened, disk, clock, To
  <2>1. CASE Check
    BY <2>1 DEF Check, IsActive, HasExpired, AfterCheck, KeyTells
  <2>2. ASSUME NEW e \in Enders, TeardownStep(e)
        PROVE  FALSE
    <3>1. PICK next \in {"mcp", "sandbox", "rmtree", "pop", "ended"} :
            teardown' = [teardown EXCEPT ![e] = next]
      BY <2>2 DEF TeardownStep, ClearKey, CloseMcp, CloseSandbox, RemoveWorkspace
    <3> QED
      BY <3>1 DEF Enders
  <2>3. CASE StartWatchdog \/ Wake \/ Close \/ Pop
    BY <2>3 DEF StartWatchdog, Wake, Close, Pop, Enders, Teardown
  <2>4. CASE UNCHANGED teardown
    BY <2>4
  <2>5. ASSUME NEW r \in Requests, Message(r) \/ Chat(r) \/ RequestStep(r)
                                 \/ ConnectServer(r) \/ StartSandbox(r) \/ UseWorkspace(r)
        PROVE  UNCHANGED teardown
    BY <2>5 DEF Message, Chat, Accept, UseWorkspace, ConnectServer, StartSandbox, RequestStep, RefreshKey, DispatchRun,
       DispatchChat, RunReturns, RunRaises, Finalize, ChatEnds
  <2>6. CASE CreateSession \/ CreateFails \/ Idle \/ KeyExpires \/ UNCHANGED vars
    BY <2>4, <2>6 DEF CreateSession, CreateFails, Idle, KeyExpires, vars
  <2> QED
    BY <2>1, <2>2, <2>3, <2>4, <2>5, <2>6 DEF Next, WatchdogStep, Enders
<1> QED
  BY <1>1, SessionInvariant, PTL DEF Spec, SparedIfActive

\* What the end of a session can leave behind, whatever is configured.
UnknownServersOnly ==
  session = "gone" /\ ~TearingDown =>
    /\ clients \subseteq late \cup (Servers \ {"mcp_fs"})
    /\ tmp_dir \in {"removed", "kept"} \/ "tmp_dir" \in late

\* A session that is gone and whose teardowns are over is attended to by nobody.
LEMMA NobodyLeft ==
  ASSUME session = "gone", ~TearingDown, NEW stage \in {"mcp", "sandbox", "rmtree"}
  PROVE  ~Attended(stage)
<1>1. Before(stage) \subseteq Teardown
  BY DEF Before, Teardown
<1> QED
  BY <1>1 DEF Attended, TearingDown

\* _close_mcp_for_repo knows "mcp_fs" alone: with any configuration, the servers it does not
\* know are all that is left of a session, apart from what a request opened or made when the
\* teardown was past, and from a directory that rmtree could not remove.
THEOREM LeaksExplained == Spec => []UnknownServersOnly
<1>1. ASSUME IInv, session = "gone", ~TearingDown
      PROVE  /\ clients \subseteq late \cup (Servers \ {"mcp_fs"})
             /\ tmp_dir \in {"removed", "kept"} \/ "tmp_dir" \in late
  <2>1. ~Attended("mcp") /\ ~Attended("sandbox") /\ ~Attended("rmtree")
    BY <1>1, NobodyLeft
  <2>2. "mcp_fs" \in clients => "mcp_fs" \in late
    BY <1>1, <2>1 DEF IInv, LookedAfter, Tidied
  <2>3. "sandbox" \in clients => "sandbox" \in late
    BY <1>1, <2>1 DEF IInv, LookedAfter, Tidied
  <2>4. tmp_dir \in {"present", "revived"} => "tmp_dir" \in late
    BY <1>1, <2>1 DEF IInv, LookedAfter, Tidied
  <2>5. clients \subseteq {"sandbox"} \cup Servers
    BY <1>1 DEF IInv, TypeOK, Clients
  <2>6. tmp_dir \in {"present", "removed", "revived", "kept"}
    BY <1>1 DEF IInv, TypeOK, LookedAfter
  <2> QED
    BY <2>2, <2>3, <2>4, <2>5, <2>6
<1>2. IInv => UnknownServersOnly
  BY <1>1 DEF UnknownServersOnly
<1> QED
  BY <1>2, SessionInvariant, PTL

\* With the default configuration of agent_mcp/config.py, where "mcp_fs" is the only server,
\* nothing else is left.
THEOREM SessionCleanedUp ==
  ASSUME Servers \subseteq {"mcp_fs"}
  PROVE  Spec => []NothingLeaks
<1>1. UnknownServersOnly => NothingLeaks
  BY DEF UnknownServersOnly, NothingLeaks
<1> QED
  BY <1>1, LeaksExplained, PTL

==============================================================================
