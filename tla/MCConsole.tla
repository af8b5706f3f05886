------------------------------ MODULE MCConsole ------------------------------
(* The console's modules, one at a time: "part" picks the module that moves    *)
(* and the others rest in an initial state.  The live state is checked with    *)
(* escalations while several polls are on their way, and with the operator's   *)
(* writes beside one of the timer's; the reset as two requests over            *)
(* one store and as one request over both, which share nothing; Protection as  *)
(* two tabs that apply while the gateway runs, and as one that also reverts    *)
(* while it comes and goes.                                                    *)
EXTENDS ConsoleLive, ConsoleReads, ConsoleAdmin, ConsoleProtection, ConsoleEvents

VARIABLE part

FirstSlot == CHOOSE s \in Slot : TRUE
FirstReset == CHOOSE r \in Reset : TRUE
FirstTab == CHOOSE t \in Tab : TRUE

consoleVars == <<liveVars, adminVars, protectionVars, eventsVars, input, part>>

ASSUME InputConstants ==
  {"a", "b"} \subseteq Client /\ {"GET", "PUT"} \subseteq Method /\ {"users", "1", "2"} \subseteq Segment

\* Requests for one page, with what fired on them; and requests for the resources
\* of one collection, most of which match no route.
Events == [ip : Client, method : {"GET"}, path : {<<"users">>}, unmatched : {TRUE},
           fired : {<<>>, <<"flood">>, <<"traversal", "enumeration">>}]

Calls == [ip : {"a", "b"}, method : {"GET"}, path : {<<"users", "1">>, <<"users", "2">>},
          unmatched : BOOLEAN, fired : {<<>>}]
         \cup [ip : {"a", "b"}, method : {"PUT"}, path : {<<"users", "1">>},
               unmatched : {TRUE}, fired : {<<>>, <<"traversal">>}]

Inputs ==
  [kind : {"events"}, hits : SUBSET (1..6), before : 1..7, limit : 1..3]
  \cup [kind : {"policies"},
        keys : [({"a", "b"} \X {"client", "endpoint"}) ->
                  {Null} \cup [action : {"throttle", "temp_block"}, ttl : {-1, 1, 2}]]]
  \cup [kind : {"overview"}, events : UNION {[1..n -> Events] : n \in 0..3}]
  \cup [kind : {"overview"}, events : [1..4 -> Calls]]

\* The modules that rest do so in a state in which nothing is due.
ConsoleInit ==
  /\ part \in {"alerts", "writes", "reset", "postgres", "redis", "applying", "reverting", "events", "reads"}
  /\ LiveInit
  /\ part # "alerts" => alerts = 0
  /\ part \notin {"alerts", "writes"} => up
  /\ AdminInit
  /\ part \notin {"reset", "postgres", "redis"} => (store = [pg |-> "up", redis |-> TRUE] /\ sequence)
  /\ ProtectionInit
  /\ part = "applying" => effective # Unset
  /\ part \notin {"applying", "reverting"} => effective = Unset
  /\ IF part = "events" THEN EventsInit
     ELSE /\ view = CHOOSE v \in View : TRUE
          /\ table = [newest |-> view, pages |-> {}]
          /\ frozen = TRUE /\ cursor = FALSE /\ older = 0 /\ loading = FALSE /\ moves = 0
          /\ asked = [r \in Request |-> Idle]
  /\ IF part = "reads" THEN input \in Inputs ELSE input = [kind |-> "none"]

ConsoleNext ==
  /\ UNCHANGED <<part, input>>
  /\ \/ /\ part = "alerts" /\ (PollNext \/ AlertNext)
        /\ UNCHANGED <<adminVars, protectionVars, eventsVars>>
     \/ /\ part = "writes" /\ (PollNext \/ WriteNext)
        /\ \A s \in Slot \ {FirstSlot} : polls'[s] = None
        /\ UNCHANGED <<adminVars, protectionVars, eventsVars>>
     \/ /\ \/ part = "postgres" /\ (DialogNext \/ PostgresNext \/ StoreChanges)
           \/ part = "redis" /\ (DialogNext \/ RedisNext \/ StoreChanges)
           \/ part = "reset" /\ AdminNext /\ \A r \in Reset \ {FirstReset} : pg'[r] = "idle"
        /\ UNCHANGED <<liveVars, protectionVars, eventsVars>>
     \/ /\ ProtectionNext
        /\ \/ part = "applying" /\ effective' # Unset
              /\ \A t \in Tab : tab'[t].confirming # "revert"
           \/ part = "reverting" /\ \A t \in Tab \ {FirstTab} : tab'[t] = tab[t]
        /\ UNCHANGED <<liveVars, adminVars, eventsVars>>
     \/ /\ part = "events" /\ EventsNext
        /\ UNCHANGED <<liveVars, adminVars, protectionVars>>

\* The fairness of every module.  Only the poller would be owed something while
\* its part rests, so its timer is that of the parts in which it runs.
ConsoleFairness ==
  /\ \A s \in Slot :
       WF_liveVars((part = "alerts" \/ (part = "writes" /\ s = FirstSlot)) /\ PollFires(s))
  /\ AnswerFairness /\ AdminFairness /\ EventsFairness

ConsoleSpec == ConsoleInit /\ [][ConsoleNext]_consoleVars /\ ConsoleFairness

\* One type invariant for the console's state.
ConsoleTypeOK == LiveTypeOK /\ AdminTypeOK /\ ProtectionTypeOK /\ EventsTypeOK /\ ReadsTypeOK

\* Inductive, and so is its every conjunct: the modules share nothing.
ConsoleInv == LiveTypeInv /\ AdminInv /\ ProtectionInv /\ EventsInv /\ ReadsTypeOK

\* No control of the console stays busy for ever: not the buttons of a write of
\* which answers are lost (store.jsx), not the dialog of a reset the server never
\* answers (chrome.jsx).
NothingHangs == BusySettles /\ DialogReturns
=============================================================================
