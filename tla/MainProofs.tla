----------------------------- MODULE MainProofs -----------------------------
(***************************************************************************)
(* Theorems about Main and ExternalLog and their proofs: what a request to *)
(* /_proxy/log stores and is told, what an exit code means, types, which   *)
(* plugins a process serves with, and that main comes to an end.           *)
(***************************************************************************)
EXTENDS Main, TLAPS

-----------------------------------------------------------------------------
(* POST /_proxy/log.                                                       *)

\* Where a request stands, what it has stored and what it was answered.
Stored(r) ==
    /\ at[r] \in {"new", "begin", "insert"} => rows[r] = 0 /\ answer[r] = "none"
    /\ at[r] = "reply" => rows[r] = RowsOfOne /\ answer[r] = "none"
    /\ at[r] = "done" /\ answer[r] = "200" => rows[r] = RowsOfOne
    /\ at[r] = "done" /\ answer[r] # "200" /\ r \notin unsure => rows[r] = 0
    /\ rows[r] \in {0, RowsOfOne}

LogInv ==
    /\ LogTypeOK
    /\ \A r \in LogRequests : Stored(r)

LEMMA LogTypeNext ==
    ASSUME LogTypeOK, NEW r \in LogRequests, Receive(r) \/ LogStep(r)
    PROVE  LogTypeOK'
<1> USE DEF LogTypeOK, Reply, Goto, RowsOfOne
<1>1. CASE Receive(r)
  BY <1>1 DEF Receive
<1>2. CASE Begin(r)
  BY <1>2 DEF Begin, Fails
<1>3. CASE Insert(r)
  <2>1. inserted[r] \in 0 .. 3 /\ inserted[r] < 3
    BY <1>3 DEF Insert
  <2>2. inserted[r] + 1 \in 0 .. 3
    BY <2>1
  <2> QED
    BY <1>3, <2>2 DEF Insert, InsertRow, Fails
<1>4. CASE Commit(r)
  BY <1>4 DEF Commit, CommitFails
<1>5. CASE Respond(r)
  BY <1>5 DEF Respond
<1> QED
  BY <1>1, <1>2, <1>3, <1>4, <1>5 DEF LogStep

\* A request touches nothing of another one.
LEMMA OthersUntouched ==
    ASSUME LogTypeOK, NEW r \in LogRequests, NEW q \in LogRequests, q # r,
           Receive(q) \/ LogStep(q)
    PROVE  /\ at'[r] = at[r] /\ rows'[r] = rows[r] /\ answer'[r] = answer[r]
           /\ r \in unsure' <=> r \in unsure
<1> USE DEF LogTypeOK, Reply, Goto
<1>1. CASE Receive(q)
  BY <1>1 DEF Receive
<1>2. CASE Begin(q) \/ Insert(q)
  BY <1>2 DEF Begin, Insert, InsertRow, Fails
<1>3. CASE Commit(q) \/ Respond(q)
  BY <1>3 DEF Commit, CommitFails, Respond
<1> QED
  BY <1>1, <1>2, <1>3 DEF LogStep

LEMMA OwnStored ==
    ASSUME LogTypeOK, NEW r \in LogRequests, Stored(r), Receive(r) \/ LogStep(r)
    PROVE  Stored(r)'
<1> USE DEF LogTypeOK, Stored, Reply, Goto, RowsOfOne
<1>1. CASE Receive(r)
  BY <1>1 DEF Receive
<1>2. CASE Begin(r)
  BY <1>2 DEF Begin, Fails
<1>3. CASE Insert(r)
  BY <1>3 DEF Insert, InsertRow, Fails
<1>4. CASE Commit(r)
  BY <1>4 DEF Commit, CommitFails
<1>5. CASE Respond(r)
  BY <1>5 DEF Respond
<1> QED
  BY <1>1, <1>2, <1>3, <1>4, <1>5 DEF LogStep

LEMMA LogNext ==
    ASSUME LogInv, NEW q \in LogRequests, Receive(q) \/ LogStep(q)
    PROVE  LogInv'
<1>1. LogTypeOK'
  BY LogTypeNext DEF LogInv
<1>2. ASSUME NEW r \in LogRequests
      PROVE  Stored(r)'
  <2>1. CASE r = q
    BY <2>1, OwnStored DEF LogInv
  <2>2. CASE r # q
    BY <2>2, OthersUntouched DEF LogInv, Stored, RowsOfOne
  <2> QED
    BY <2>1, <2>2
<1> QED
  BY <1>1, <1>2 DEF LogInv

\* Apart from the requests, main changes the token and the pool only.
LEMMA MainLeavesLog ==
    ASSUME [Next]_vars
    PROVE  \/ UNCHANGED logVars /\ UNCHANGED <<logToken, pool>>
           \/ UNCHANGED logVars /\ Wire
           \/ UNCHANGED logVars /\ ClosePlugin
           \/ \E r \in LogRequests : Receive(r) \/ LogStep(r)
<1>1. CASE StartStep
  BY <1>1
  DEF StartStep, LoadConfig, RunMigrations, MigrationVersion, ParseUpstream,
      BuildPlugin, BuildDone, Wire, serviceVars
<1>2. CASE StopStep \/ ServeFails \/ Signal \/ ShutdownOver \/ Killed
  BY <1>2
  DEF StopStep, ServerClosed, ClosePlugin, MainReturns, ServeFails, Signal,
      ShutdownOver, Killed, serviceVars
<1>3. CASE \E r \in LogRequests : HandleLog(r)
  BY <1>3 DEF HandleLog
<1>4. CASE UNCHANGED vars
  BY <1>4 DEF vars, serviceVars
<1> QED
  BY <1>1, <1>2, <1>3, <1>4 DEF Next

LEMMA LogInvNext == LogInv /\ [Next]_vars => LogInv'
<1> SUFFICES ASSUME LogInv, [Next]_vars PROVE LogInv'
  OBVIOUS
<1>1. CASE UNCHANGED logVars
  <2>1. logToken' \in BOOLEAN /\ pool' \in {"absent", "open", "closed"}
    BY <1>1, MainLeavesLog, LogTypeNext
    DEF Wire, ClosePlugin, LogInv, LogTypeOK
  <2> QED
    BY <1>1, <2>1 DEF LogInv, LogTypeOK, Stored, logVars
<1>2. CASE \E r \in LogRequests : Receive(r) \/ LogStep(r)
  BY <1>2, LogNext
<1> QED
  BY <1>1, <1>2, MainLeavesLog

LEMMA LogCorrect == Spec => []LogInv
<1>1. Init => LogInv
  <2> SUFFICES ASSUME LogInit PROVE LogInv
    BY DEF Init
  <2>1. LogTypeOK
    <3>1. 0 \in 0 .. RowsOfOne
      BY DEF RowsOfOne
    <3> QED
      BY <3>1 DEF LogInit, LogTypeOK
  <2>2. \A r \in LogRequests : Stored(r)
    BY DEF LogInit, Stored
  <2> QED
    BY <2>1, <2>2 DEF LogInv
<1> QED
  BY <1>1, LogInvNext, PTL DEF Spec

\* However many requests write at once, whatever fails and wherever the process
\* ends, a conversation is stored whole or not at all
\* (database_hook.go:380-415).
THEOREM StoredWhole == Spec => []WholeConversations
<1>1. LogInv => WholeConversations
  BY DEF LogInv, Stored, WholeConversations
<1> QED
  BY <1>1, LogCorrect, PTL

\* The status a caller gets says whether its conversation is stored, but for
\* a commit whose answer was lost (proxy.go:484-491, database_hook.go:411).
THEOREM CallerIsToldTheTruth == Spec => []AnswerIsTrue
<1>1. LogInv => AnswerIsTrue
  BY DEF LogInv, LogTypeOK, Stored, AnswerIsTrue
<1> QED
  BY <1>1, LogCorrect, PTL

-----------------------------------------------------------------------------
(* Exit codes.                                                             *)

\* What a process with --migrate has done by each label.
MigrateInv ==
    /\ migrate => pc \in {"load", "migrate", "version", "exited"} /\ built = <<>>
    /\ pc \in {"migrate", "version"} => migrate
    /\ pc = "version" => schema = "current"
    /\ pc # "exited" => code = "none"
    /\ migrate /\ code = "0" => schema = "current"

LEMMA MigrateNext == MigrateInv /\ [Next]_vars => MigrateInv'
<1> SUFFICES ASSUME MigrateInv, [Next]_vars PROVE MigrateInv'
  OBVIOUS
<1> USE DEF MigrateInv, Exit, Proceed
<1>1. CASE LoadConfig
  BY <1>1 DEF LoadConfig, buildVars
<1>2. CASE RunMigrations
  BY <1>2 DEF RunMigrations, UpFails, buildVars
<1>3. CASE MigrationVersion
  BY <1>3 DEF MigrationVersion, buildVars
<1>4. CASE BuildPlugin
  BY <1>4 DEF BuildPlugin, PassedOver, FactoryFails
<1>5. CASE ParseUpstream \/ BuildDone \/ Wire \/ ServeFails \/ Signal \/ ShutdownOver
  BY <1>5 DEF ParseUpstream, BuildDone, Wire, ServeFails, Signal, ShutdownOver,
              buildVars, Alive
<1>6. CASE StopStep
  BY <1>6 DEF StopStep, ServerClosed, ClosePlugin, MainReturns, buildVars
<1>7. CASE Killed
  BY <1>7 DEF Killed, buildVars
<1>8. CASE \E r \in LogRequests : HandleLog(r)
  BY <1>8 DEF HandleLog, mainVars
<1>9. CASE UNCHANGED vars
  BY <1>9 DEF vars, mainVars
<1> QED
  BY <1>1, <1>2, <1>3, <1>4, <1>5, <1>6, <1>7, <1>8, <1>9 DEF Next, StartStep

LEMMA MigrateCorrect == Spec => []MigrateInv
<1>1. Init => MigrateInv
  BY DEF Init, MigrateInv
<1> QED
  BY <1>1, MigrateNext, PTL DEF Spec

\* A process started with --migrate serves nothing and exits with 0 only if
\* the schema is current (main.go:70-91).
THEOREM MigrationExitCode == Spec => []MigrateOnlyMigrates
<1>1. MigrateInv => MigrateOnlyMigrates
  BY DEF MigrateInv, MigrateOnlyMigrates, Alive
<1> QED
  BY <1>1, MigrateCorrect, PTL

\* The plugins that were closed are the first that were built, in order.
ClosedInv ==
    /\ next \in Nat
    /\ built \in Seq(Plugins) /\ closed \in Seq(Plugins)
    /\ pc \notin {"closing", "exited"} => closed = <<>>
    /\ Len(closed) <= Len(built)
    /\ \A i \in 1 .. Len(closed) : closed[i] = built[i]
    /\ code = "0" => closed = built

LEMMA ClosedFrame ==
    ASSUME ClosedInv, UNCHANGED <<next, built, closed>>, code' # "0" \/ code' = code,
           pc' \notin {"closing", "exited"} => pc \notin {"closing", "exited"}
    PROVE  ClosedInv'
BY DEF ClosedInv

LEMMA ClosedNext == MigrateInv /\ ClosedInv /\ [Next]_vars => ClosedInv'
<1> SUFFICES ASSUME MigrateInv, ClosedInv, [Next]_vars PROVE ClosedInv'
  OBVIOUS
<1> USE DEF Exit, Proceed
<1>1. CASE LoadConfig \/ RunMigrations \/ ParseUpstream \/ BuildDone \/ Wire
  BY <1>1, ClosedFrame
  DEF LoadConfig, RunMigrations, UpFails, ParseUpstream, BuildDone, Wire, buildVars
<1>2. CASE MigrationVersion
  <2>1. built = <<>> /\ closed = <<>> /\ UNCHANGED <<next, built, closed>>
        /\ pc' = "exited"
    BY <1>2 DEF MigrationVersion, buildVars, MigrateInv, ClosedInv
  <2> QED
    BY <2>1 DEF ClosedInv
<1>3. CASE BuildPlugin
  <2>1. closed = <<>> /\ closed' = <<>> /\ pc' \in {"build", "exited"}
        /\ code' # "0" /\ next' \in Nat
    BY <1>3 DEF BuildPlugin, PassedOver, FactoryFails, ClosedInv, MigrateInv
  <2>2. built' \in Seq(Plugins)
    <3>1. next \in Nat
      BY DEF ClosedInv
    <3>2. built' = built \/ built' = Append(built, Registry[next + 1])
      BY <1>3 DEF BuildPlugin, PassedOver
    <3>3. next + 1 \in 1 .. 2
      BY <1>3, <3>1 DEF BuildPlugin, Registry
    <3>4. Registry[next + 1] \in Plugins
      BY <3>3 DEF Registry, Plugins
    <3> QED
      BY <3>2, <3>4 DEF ClosedInv
  <2> QED
    BY <2>1, <2>2 DEF ClosedInv
<1>4. CASE ServeFails \/ Signal \/ ShutdownOver \/ ServerClosed
  BY <1>4, ClosedFrame
  DEF ServeFails, Signal, ShutdownOver, ServerClosed, buildVars
<1>5. CASE ClosePlugin
  <2>1. Len(closed) < Len(built) /\ built' = built /\ next' = next /\ pc' = pc /\ pc = "closing"
        /\ code' = code /\ closed' = Append(closed, built[Len(closed) + 1])
    BY <1>5 DEF ClosePlugin, ToClose, buildVars
  <2>2. /\ built \in Seq(Plugins) /\ closed \in Seq(Plugins)
        /\ \A i \in 1 .. Len(closed) : closed[i] = built[i]
    BY DEF ClosedInv
  <2>3. Len(closed) \in Nat /\ Len(built) \in Nat
    BY <2>2
  <2>4. Len(closed) + 1 \in 1 .. Len(built)
    BY <2>1, <2>3
  <2>5. built[Len(closed) + 1] \in Plugins
    BY <2>2, <2>4
  <2>6. closed' \in Seq(Plugins) /\ Len(closed') = Len(closed) + 1
    BY <2>1, <2>2, <2>5
  <2>7. \A i \in 1 .. Len(closed') : closed'[i] = built[i]
    BY <2>1, <2>2, <2>3, <2>5, <2>6
  <2>8. code' # "0" /\ next' \in Nat
    BY <2>1 DEF MigrateInv, ClosedInv
  <2> QED
    BY <2>1, <2>2, <2>4, <2>6, <2>7, <2>8 DEF ClosedInv
<1>6. CASE MainReturns
  <2>1. closed = built /\ UNCHANGED <<next, built, closed>> /\ pc' = "exited"
    <3>1. Len(closed) = Len(built) /\ UNCHANGED <<next, built, closed>> /\ pc' = "exited"
      BY <1>6 DEF MainReturns, buildVars
    <3> QED
      BY <3>1 DEF ClosedInv
  <2> QED
    BY <2>1 DEF ClosedInv
<1>7. CASE Killed
  BY <1>7, ClosedFrame DEF Killed, buildVars
<1>8. CASE \E r \in LogRequests : HandleLog(r)
  BY <1>8, ClosedFrame DEF HandleLog, mainVars
<1>9. CASE UNCHANGED vars
  BY <1>9, ClosedFrame DEF vars, mainVars
<1> QED
  BY <1>1, <1>2, <1>3, <1>4, <1>5, <1>6, <1>7, <1>8, <1>9
  DEF Next, StartStep, StopStep

LEMMA ClosedCorrect == Spec => []ClosedInv
<1>1. Init => ClosedInv
  BY DEF Init, ClosedInv
<1> QED
  BY <1>1, MigrateCorrect, ClosedNext, PTL DEF Spec

\* A process that exits with 0 has closed every plugin it built, in the order
\* in which it built them (main.go:158-180).
THEOREM ExitClosesPlugins == Spec => []CleanExitClosesAll
<1>1. ClosedInv => CleanExitClosesAll
  BY DEF ClosedInv, CleanExitClosesAll
<1> QED
  BY <1>1, ClosedCorrect, PTL

-----------------------------------------------------------------------------
(* Types.                                                                  *)

\* What has been built of the registry so far, each plugin once.
BuiltInv ==
    /\ next \in 0 .. 2
    /\ built \in Seq(Plugins) /\ Len(built) <= next
    /\ \A i \in DOMAIN built : built[i] = "rgb" => next = 2
    /\ \A i, j \in DOMAIN built : built[i] = built[j] => i = j

LEMMA BuiltNext == BuiltInv /\ [Next]_vars => BuiltInv'
<1> SUFFICES ASSUME BuiltInv, [Next]_vars PROVE BuiltInv'
  OBVIOUS
<1>1. CASE BuildPlugin
  <2>1. next \in {0, 1} /\ next' = next + 1
    BY <1>1 DEF BuildPlugin, BuiltInv, Registry
  <2>2. CASE built' = built
    BY <2>1, <2>2 DEF BuiltInv
  <2>3. CASE built' = Append(built, Registry[next + 1])
    <3> DEFINE p == Registry[next + 1]
    <3>1. /\ p \in Plugins /\ (p = "rgb" => next' = 2)
          /\ next = 0 => Len(built) = 0
          /\ next = 1 => p = "rgb"
      BY <2>1 DEF Registry, Plugins, BuiltInv
    <3>2. /\ Len(built) \in Nat /\ DOMAIN built = 1 .. Len(built)
          /\ built' \in Seq(Plugins) /\ Len(built') = Len(built) + 1
          /\ DOMAIN built' = 1 .. Len(built) + 1
          /\ built'[Len(built) + 1] = p
          /\ \A i \in 1 .. Len(built) : built'[i] = built[i]
      BY <2>3, <3>1 DEF BuiltInv
    <3>3. \A i \in 1 .. Len(built) : built[i] # p
      BY <2>1, <3>1, <3>2 DEF BuiltInv
    <3>4. \A i \in 1 .. Len(built) + 1 : i \in 1 .. Len(built) \/ i = Len(built) + 1
      BY <3>2
    <3>5. \A i, j \in DOMAIN built' : built'[i] = built'[j] => i = j
      BY <3>2, <3>3, <3>4 DEF BuiltInv
    <3>6. \A i \in DOMAIN built' : built'[i] = "rgb" => next' = 2
      BY <2>1, <3>1, <3>2, <3>4 DEF BuiltInv
    <3>7. next' \in 0 .. 2 /\ Len(built') <= next'
      BY <2>1, <3>2 DEF BuiltInv
    <3> QED
      BY <3>2, <3>5, <3>6, <3>7 DEF BuiltInv
  <2> QED
    BY <1>1, <2>2, <2>3 DEF BuildPlugin, PassedOver
<1>2. CASE UNCHANGED buildVars
  BY <1>2 DEF buildVars, BuiltInv
<1>3. UNCHANGED buildVars \/ BuildPlugin
  BY DEF Next, StartStep, StopStep, LoadConfig, RunMigrations, MigrationVersion,
     ParseUpstream, BuildDone, Wire, ServerClosed, ClosePlugin, MainReturns, ServeFails, Signal,
     ShutdownOver, Killed, HandleLog, mainVars, vars, buildVars
<1> QED
  BY <1>1, <1>2, <1>3

\* The variables of main that are one of a few values.
Labels ==
    /\ migrate \in BOOLEAN
    /\ pc \in {"load", "migrate", "version", "upstream", "build", "wire",
               "serving", "closing", "exited"}
    /\ config \in Config
    /\ schema \in {"old", "dirty", "current"}
    /\ shutdown \in {"no", "waiting", "over"}
    /\ code \in {"none", "0", "1", "killed"}

LEMMA LabelsNext == Labels /\ [Next]_vars => Labels'
<1> SUFFICES ASSUME Labels, [Next]_vars PROVE Labels'
  OBVIOUS
<1> USE DEF Labels, Exit, Proceed
<1>1. CASE LoadConfig
  <2>1. config' \in Config
    <3>1. defaultConfig \in Config
      BY DEF defaultConfig, Config
    <3>2. ASSUME NEW c \in Config, NEW a \in BOOLEAN, NEW b \in BOOLEAN
          PROVE  Overridden(c, a, b) \in Config
      <4>1. \A x, y \in BOOLEAN : [[c EXCEPT !.url = x] EXCEPT !.urlFile = y] \in Config
        BY <3>2 DEF Config
      <4>2. (c.url \/ a) \in BOOLEAN /\ (c.urlFile \/ b) \in BOOLEAN
        OBVIOUS
      <4>3. Overridden(c, a, b)
              = [[c EXCEPT !.url = (c.url \/ a)] EXCEPT !.urlFile = (c.urlFile \/ b)]
        BY <3>2 DEF Config, Overridden
      <4> QED
        BY <4>1, <4>2, <4>3
    <3> QED
      BY <1>1, <3>1, <3>2 DEF LoadConfig
  <2>2. /\ pc' \in {"exited", "migrate", "upstream"} /\ code' \in {code, "1"}
        /\ UNCHANGED <<migrate, schema, shutdown>>
    BY <1>1 DEF LoadConfig
  <2> QED
    BY <2>1, <2>2
<1>2. CASE RunMigrations \/ MigrationVersion
  BY <1>2 DEF RunMigrations, MigrationVersion, UpFails
<1>3. CASE ParseUpstream \/ BuildPlugin \/ BuildDone \/ Wire
  BY <1>3 DEF ParseUpstream, BuildPlugin, PassedOver, FactoryFails, BuildDone, Wire
<1>4. CASE StopStep
  BY <1>4 DEF StopStep, ServerClosed, ClosePlugin, MainReturns
<1>5. CASE ServeFails \/ Signal \/ ShutdownOver \/ Killed
  BY <1>5 DEF ServeFails, Signal, ShutdownOver, Killed
<1>6. CASE (\E r \in LogRequests : HandleLog(r)) \/ UNCHANGED vars
  BY <1>6 DEF HandleLog, mainVars, vars
<1> QED
  BY <1>1, <1>2, <1>3, <1>4, <1>5, <1>6 DEF Next, StartStep

\* Every reachable state is of its types: no plugin is built twice, and a
\* transaction and the database hold at most the three rows of a conversation
\* (plugin.go:52-66, database_hook.go:380-415).
THEOREM TypeCorrect == Spec => []TypeOK
<1>1. Init => BuiltInv /\ Labels
  BY DEF Init, BuiltInv, Labels, defaultConfig, Config
<1>2. LogInv /\ ClosedInv /\ BuiltInv /\ Labels => TypeOK
  <2>1. Len(Registry) = 2
    BY DEF Registry
  <2> QED
    BY <2>1 DEF LogInv, ClosedInv, BuiltInv, Labels, TypeOK
<1> QED
  BY <1>1, <1>2, LogCorrect, ClosedCorrect, BuiltNext, LabelsNext, PTL DEF Spec

-----------------------------------------------------------------------------
(* Which plugins are built.                                                *)

\* BuildPlugins has come past the plugin.
Visited(p) == \E i \in 1 .. next : Registry[i] = p

\* Until the process ends, those it has come past are built exactly if they
\* are enabled, and none before the configuration is loaded.
ServesInv ==
    /\ pc \in {"load", "migrate", "version", "upstream"} => next = 0 /\ built = <<>>
    /\ pc \in {"wire", "serving", "closing"} => next = Len(Registry)
    /\ pc # "exited" => \A p \in Plugins : IsBuilt(p) <=> Visited(p) /\ Enabled(p)
    /\ \A i, j \in DOMAIN built : i < j => Before(built[i], built[j])

LEMMA ServesFrame ==
    ASSUME ServesInv, UNCHANGED buildVars,
           pc' = "exited" \/ UNCHANGED <<pc, config>>
    PROVE  ServesInv'
BY DEF ServesInv, buildVars, IsBuilt, Visited, Enabled, Before

\* An enabled plugin that is built comes after all that have been built.
LEMMA ServesAppend ==
    ASSUME BuiltInv, ServesInv, pc = "build", pc' = "build", UNCHANGED config,
           next < Len(Registry), next' = next + 1, Enabled(Registry[next + 1]),
           built' = Append(built, Registry[next + 1])
    PROVE  ServesInv'
<1> DEFINE q == Registry[next + 1]
<1>1. /\ next \in Nat /\ next + 1 \in DOMAIN Registry /\ q \in Plugins
      /\ 1 .. next' = 1 .. next \cup {next + 1}
      /\ \A i \in 1 .. next : i \in DOMAIN Registry /\ i < next + 1
  BY DEF BuiltInv, Registry, Plugins
<1>2. /\ Len(built) \in Nat /\ DOMAIN built = 1 .. Len(built)
      /\ DOMAIN built' = 1 .. Len(built) + 1
      /\ built'[Len(built) + 1] = q
      /\ \A i \in 1 .. Len(built) : built'[i] = built[i] /\ built[i] \in Plugins
  BY <1>1 DEF BuiltInv
<1>3. \A p \in Plugins : IsBuilt(p)' <=> IsBuilt(p) \/ p = q
  BY <1>2 DEF IsBuilt
<1>4. \A p \in Plugins : Visited(p)' <=> Visited(p) \/ p = q
  BY <1>1 DEF Visited
<1>5. \A p \in Plugins : IsBuilt(p)' <=> Visited(p)' /\ Enabled(p)'
  BY <1>3, <1>4 DEF ServesInv, Enabled
<1>6. \A i \in 1 .. Len(built) : Before(built[i], q)
  <2> TAKE i \in 1 .. Len(built)
  <2>1. IsBuilt(built[i]) /\ built[i] \in Plugins
    BY <1>2 DEF IsBuilt
  <2>2. Visited(built[i])
    BY <2>1 DEF ServesInv
  <2> QED
    BY <1>1, <2>2 DEF Visited, Before
<1>7. \A i, j \in DOMAIN built' : i < j => Before(built'[i], built'[j])
  <2> SUFFICES ASSUME NEW i \in DOMAIN built', NEW j \in DOMAIN built', i < j
               PROVE  Before(built'[i], built'[j])
    OBVIOUS
  <2>1. i \in 1 .. Len(built) /\ (j \in 1 .. Len(built) \/ j = Len(built) + 1)
    BY <1>2
  <2> QED
    BY <1>2, <1>6, <2>1 DEF ServesInv
<1> QED
  BY <1>5, <1>7 DEF ServesInv, Before

LEMMA ServesNext == BuiltInv /\ MigrateInv /\ ServesInv /\ [Next]_vars => ServesInv'
<1> SUFFICES ASSUME BuiltInv, MigrateInv, ServesInv, [Next]_vars PROVE ServesInv'
  OBVIOUS
<1> USE DEF Exit, Proceed
<1>1. CASE LoadConfig
  <2>1. pc' \in {"exited", "migrate", "upstream"} /\ next = 0 /\ built = <<>>
        /\ UNCHANGED <<next, built>>
    BY <1>1 DEF LoadConfig, buildVars, ServesInv
  <2>2. \A p \in Plugins : ~IsBuilt(p)' /\ ~Visited(p)'
    BY <2>1 DEF IsBuilt, Visited
  <2> QED
    BY <2>1, <2>2 DEF ServesInv
<1>2. CASE RunMigrations
  <2>1. pc' \in {"exited", "version"} /\ UNCHANGED <<config, next, built>>
        /\ next = 0 /\ built = <<>> /\ pc # "exited"
    BY <1>2 DEF RunMigrations, UpFails, buildVars, ServesInv
  <2> QED
    BY <2>1 DEF ServesInv, IsBuilt, Visited, Enabled, Before
<1>3. CASE MigrationVersion \/ ServeFails \/ MainReturns \/ Killed
  BY <1>3, ServesFrame DEF MigrationVersion, ServeFails, MainReturns, Killed
<1>4. CASE BuildPlugin
  <2> DEFINE q == Registry[next + 1]
  <2>1. /\ pc = "build" /\ next < Len(Registry) /\ next' = next + 1
        /\ UNCHANGED config
        /\ \/ ~Enabled(q) /\ pc' = "build" /\ built' = built
           \/ Enabled(q) /\ built' = Append(built, q) /\ pc' = "build"
           \/ pc' = "exited" /\ built' = built
    BY <1>4 DEF BuildPlugin, PassedOver, FactoryFails
  <2>2. CASE ~Enabled(q) /\ pc' = "build" /\ built' = built
    <3>1. next \in Nat /\ 1 .. next' = 1 .. next \cup {next + 1}
      BY <2>1 DEF BuiltInv
    <3>2. \A p \in Plugins : Visited(p)' <=> Visited(p) \/ p = q
      BY <3>1 DEF Visited
    <3>3. \A p \in Plugins : /\ IsBuilt(p)' <=> IsBuilt(p)
                             /\ Enabled(p)' <=> Enabled(p)
      BY <2>1, <2>2 DEF IsBuilt, Enabled
    <3>4. \A p \in Plugins : p = q => ~Enabled(p)
      BY <2>2 DEF Enabled
    <3>5. \A p \in Plugins : IsBuilt(p) <=> Visited(p) /\ Enabled(p)
      BY <2>1 DEF ServesInv
    <3>6. \A p \in Plugins : IsBuilt(p)' <=> Visited(p)' /\ Enabled(p)'
      BY <3>2, <3>3, <3>4, <3>5
    <3> QED
      BY <2>2, <3>6 DEF ServesInv, Before
  <2>3. CASE Enabled(q) /\ built' = Append(built, q) /\ pc' = "build"
    BY <2>1, <2>3, ServesAppend
  <2>4. CASE pc' = "exited" /\ built' = built
    BY <2>4 DEF ServesInv, Before
  <2> QED
    BY <2>1, <2>2, <2>3, <2>4
<1>5. CASE ParseUpstream \/ BuildDone
  BY <1>5 DEF ParseUpstream, BuildDone, buildVars, ServesInv, IsBuilt, Visited, Enabled, Before
<1>6. CASE Wire \/ ServerClosed
  BY <1>6 DEF Wire, ServerClosed, buildVars, ServesInv, IsBuilt, Visited, Enabled,
              Before
<1>7. CASE ClosePlugin \/ Signal \/ ShutdownOver
  BY <1>7, ServesFrame DEF ClosePlugin, Signal, ShutdownOver
<1>8. CASE (\E r \in LogRequests : HandleLog(r)) \/ UNCHANGED vars
  BY <1>8, ServesFrame DEF HandleLog, mainVars, vars, buildVars
<1> QED
  BY <1>1, <1>2, <1>3, <1>4, <1>5, <1>6, <1>7, <1>8 DEF Next, StartStep, StopStep

\* Whatever the configuration enables and whichever factory fails, a process
\* that serves has exactly the registered plugins that are enabled, in the order
\* of the registry (plugin.go:52-66, main.go:102-106).  It says of webhook, which
\* may be enabled and has no factory, that it is not built.
THEOREM NeverDegraded == Spec => []ServesAllEnabled
<1>1. Init => BuiltInv /\ ServesInv
  BY DEF Init, BuiltInv, ServesInv, IsBuilt, Visited
<1>2. ServesInv => ServesAllEnabled
  <2> SUFFICES ASSUME ServesInv, Alive PROVE ServesAllEnabled
    BY DEF ServesAllEnabled
  <2>1. \A p \in Plugins : Visited(p) <=> Registered(p)
    <3>1. next = 2 /\ DOMAIN Registry = 1 .. 2
      BY DEF ServesInv, Alive, Registry
    <3> QED
      BY <3>1 DEF Visited, Registered
  <2> QED
    BY <2>1 DEF ServesInv, ServesAllEnabled, Alive
<1> QED
  BY <1>1, <1>2, BuiltNext, MigrateCorrect, ServesNext, PTL DEF Spec

-----------------------------------------------------------------------------
(* The process comes to an end.                                            *)

\* The most steps main has left: two at most for an entry of the registry, which is
\* built and closed, and one for each label on the way.
MainLeft ==
    CASE pc = "load" -> 2 * Len(Registry) + 6
      [] pc = "migrate" -> 2
      [] pc = "version" -> 1
      [] pc = "upstream" -> 2 * Len(Registry) + 5
      [] pc = "build" -> 2 * (Len(Registry) - next) + Len(built) + 4
      [] pc = "wire" -> Len(built) + 3
      [] pc = "serving" -> Len(built) + 2
      [] pc = "closing" -> Len(built) - Len(closed) + 1
      [] pc = "exited" -> 0

\* Each step of main leaves fewer, and what it does not wait for leaves as many:
\* the signal, the goroutine of Shutdown and the requests.
MainFinishes ==
    /\ StartStep \/ StopStep \/ ServeFails \/ Killed => MainLeft' < MainLeft
    /\ Signal \/ ShutdownOver \/ (\E r \in LogRequests : HandleLog(r))
          => MainLeft' = MainLeft

\* A process that has been told to stop serves, closes its plugins or is over.
ToldToStop == shutdown # "no" => pc \in {"serving", "closing", "exited"}

\* What the number of steps left depends on.
Course == ClosedInv /\ BuiltInv /\ Labels /\ ServesInv

\* It is a number, and 0 when the process has ended.
LEMMA LeftTypes ==
    ASSUME Course
    PROVE  MainLeft \in Nat /\ (MainLeft = 0 <=> pc = "exited")
<1>1. /\ Len(Registry) = 2 /\ next \in 0 .. 2
      /\ Len(built) \in Nat /\ Len(closed) \in Nat /\ Len(closed) <= Len(built)
  BY DEF Course, ClosedInv, BuiltInv, Registry
<1>2. pc \in {"load", "migrate", "version", "upstream", "build", "wire", "serving",
            "closing", "exited"}
  BY DEF Course, Labels
<1> QED
  BY <1>1, <1>2 DEF MainLeft

\* A step of main takes one away at least.
LEMMA MainStepLess ==
    ASSUME Course, StartStep \/ StopStep \/ ServeFails \/ Killed
    PROVE  MainLeft' < MainLeft
<1>1. /\ Len(Registry) = 2 /\ next \in 0 .. 2
      /\ built \in Seq(Plugins) /\ closed \in Seq(Plugins)
      /\ Len(built) \in Nat /\ Len(closed) \in Nat /\ Len(closed) <= Len(built)
  BY DEF Course, ClosedInv, BuiltInv, Registry
<1>2. pc \in {"load", "migrate", "version", "upstream", "build", "wire", "serving",
            "closing", "exited"}
  BY DEF Course, Labels
<1>3. MainLeft \in Nat /\ (MainLeft = 0 <=> pc = "exited")
  BY LeftTypes
<1>4. CASE pc # "exited" /\ pc' = "exited"
  <2>1. MainLeft' = 0
    BY <1>4 DEF MainLeft
  <2> QED
    BY <1>3, <1>4, <2>1
<1>5. CASE LoadConfig /\ pc' # "exited"
  <2>1. pc = "load" /\ pc' \in {"migrate", "upstream"}
    BY <1>5 DEF LoadConfig, Exit, Proceed
  <2> QED
    BY <1>1, <2>1 DEF MainLeft
<1>6. CASE RunMigrations /\ pc' # "exited"
  <2>1. pc = "migrate" /\ pc' = "version"
    BY <1>6 DEF RunMigrations, UpFails, Exit, Proceed
  <2> QED
    BY <2>1 DEF MainLeft
<1>7. CASE BuildPlugin /\ pc' # "exited"
  <2>1. /\ pc = "build" /\ pc' = "build" /\ next < 2 /\ next' = next + 1
        /\ built' = built \/ built' = Append(built, Registry[next + 1])
    BY <1>1, <1>7 DEF BuildPlugin, PassedOver, FactoryFails, Exit, Proceed
  <2>2. Registry[next + 1] \in Plugins
    BY <1>1, <2>1 DEF Registry, Plugins
  <2>3. Len(built') \in {Len(built), Len(built) + 1}
    BY <1>1, <2>1, <2>2
  <2> QED
    BY <1>1, <2>1, <2>3 DEF MainLeft
<1>8. CASE ParseUpstream /\ pc' # "exited"
  <2>1. /\ pc = "upstream" /\ pc' = "build"
        /\ next' = 0 /\ built' = <<>> /\ Len(<<>>) = 0
    BY <1>8 DEF ParseUpstream, Exit, Proceed, buildVars, Course, ServesInv
  <2> QED
    BY <1>1, <2>1 DEF MainLeft
<1>9. CASE BuildDone \/ Wire \/ ServerClosed
  <2>1. /\ UNCHANGED <<next, built, closed>>
        /\ \/ pc = "build" /\ next = 2 /\ pc' = "wire"
           \/ pc = "wire" /\ pc' = "serving"
           \/ pc = "serving" /\ pc' = "closing"
    BY <1>1, <1>9 DEF BuildDone, Wire, ServerClosed, Proceed, buildVars
  <2> QED
    BY <1>1, <2>1 DEF MainLeft
<1>10. CASE ClosePlugin
  <2>1. /\ pc = "closing" /\ pc' = pc /\ UNCHANGED built
        /\ Len(closed) < Len(built)
        /\ closed' = Append(closed, built[Len(closed) + 1])
    BY <1>10 DEF ClosePlugin, ToClose, buildVars
  <2>2. built[Len(closed) + 1] \in Plugins
    <3>1. Len(closed) + 1 \in 1 .. Len(built)
      BY <1>1, <2>1
    <3> QED
      BY <1>1, <3>1
  <2>3. Len(closed') = Len(closed) + 1
    BY <1>1, <2>1, <2>2
  <2> QED
    BY <1>1, <2>1, <2>3 DEF MainLeft
<1>11. CASE MigrationVersion \/ MainReturns \/ ServeFails \/ Killed
  BY <1>4, <1>11 DEF MigrationVersion, MainReturns, ServeFails, Killed, Exit
<1>12. CASE (LoadConfig \/ RunMigrations \/ ParseUpstream \/ BuildPlugin)
            /\ pc' = "exited"
  BY <1>4, <1>12 DEF LoadConfig, RunMigrations, ParseUpstream, BuildPlugin
<1> QED
  BY <1>5, <1>6, <1>7, <1>8, <1>9, <1>10, <1>11, <1>12 DEF StartStep, StopStep

\* The safety half of SignalEndsProcess: main takes a bounded number of steps,
\* from its start to its end, and neither Shutdown nor the requests to
\* /_proxy/log make it longer; a process that has been told to stop is on its
\* way out (main.go:93-180, plugin.go:52-66).
THEOREM MainComesToAnEnd ==
    Spec => /\ [](ToldToStop /\ MainLeft \in Nat /\ (MainLeft = 0 <=> pc = "exited"))
            /\ [][MainFinishes]_vars
<1>1. Spec => []Course
  <2>1. Init => ServesInv
    BY DEF Init, ServesInv, IsBuilt, Visited, defaultConfig, Plugins
  <2>2. Init => BuiltInv /\ Labels
    BY DEF Init, BuiltInv, Labels, defaultConfig, Config
  <2> QED
    BY <2>1, <2>2, BuiltNext, LabelsNext, ServesNext, MigrateCorrect, ClosedCorrect,
       PTL DEF Spec, Course
<1>2. Course /\ [Next]_vars => [MainFinishes]_vars
  <2> SUFFICES ASSUME Course, [Next]_vars PROVE MainFinishes
    OBVIOUS
  <2>1. ASSUME Signal \/ ShutdownOver \/ (\E r \in LogRequests : HandleLog(r))
        PROVE  MainLeft' = MainLeft
    BY <2>1 DEF Signal, ShutdownOver, HandleLog, mainVars, buildVars, MainLeft
  <2> QED
    BY <2>1, MainStepLess DEF MainFinishes
<1>3. Init => ToldToStop
  BY DEF Init, ToldToStop
<1>4. ToldToStop /\ [Next]_vars => ToldToStop'
  <2> SUFFICES ASSUME ToldToStop, [Next]_vars PROVE ToldToStop'
    OBVIOUS
  <2> USE DEF ToldToStop, Exit, Proceed
  <2>1. CASE StartStep
    BY <2>1 DEF StartStep, LoadConfig, RunMigrations, UpFails, MigrationVersion,
       ParseUpstream, BuildPlugin, FactoryFails, BuildDone, Wire
  <2>2. CASE StopStep \/ ServeFails \/ Signal \/ ShutdownOver \/ Killed
    BY <2>2 DEF StopStep, ServerClosed, ClosePlugin, MainReturns, ServeFails, Signal,
       ShutdownOver, Killed, Alive
  <2>3. CASE (\E r \in LogRequests : HandleLog(r)) \/ UNCHANGED vars
    BY <2>3 DEF HandleLog, mainVars, vars
  <2> QED
    BY <2>1, <2>2, <2>3 DEF Next
<1>5. Course => MainLeft \in Nat /\ (MainLeft = 0 <=> pc = "exited")
  BY LeftTypes
<1> QED
  BY <1>1, <1>2, <1>3, <1>4, <1>5, PTL DEF Spec

=============================================================================
