-------------------------------- MODULE Main --------------------------------
(***************************************************************************)
(* main.go with config.go, plugin.go, rgb_config.go and migrate.go: the    *)
(* process from the flags to its exit.  It loads the configuration, builds *)
(* the plugins that are enabled, serves (here: the requests of             *)
(* ExternalLog), and after a signal closes the plugins and ends.           *)
(*                                                                         *)
(* A configuration file is abstracted to the plugins it enables and the    *)
(* settings their factories need; what a file holds, and whether a         *)
(* database or a lamp server answers, is chosen when it is asked.          *)
(***************************************************************************)
EXTENDS ExternalLog, Sequences, FiniteSets

VARIABLES
    migrate,     \* the flag --migrate
    pc,          \* where main is
    config,      \* the configuration in effect
    next,        \* how many entries of the registry have been built
    built,       \* pluginHooks, in order
    closed,      \* the plugins whose Close has returned, in order
    schema,      \* the tables of the database
    shutdown,    \* srv.Shutdown, in a goroutine of its own
    code         \* exit code

buildVars == <<next, built>>
mainVars == <<migrate, pc, config, next, built, closed, schema, shutdown, code>>
serviceVars == <<logToken, pool, logVars>>
vars == <<serviceVars, mainVars>>

\* The names registered by the init functions, each once (RegisterPlugin
\* panics on one that is there already), sorted.
Registry == <<"db", "rgb">>

\* The plugins that have a block in the configuration.
Plugins == {"db", "rgb", "webhook"}

\* There is a block for webhook and no factory.
Registered(p) == \E i \in DOMAIN Registry : Registry[i] = p

\* plugins.<p>.enabled, plugins.db.url and url_file, plugins.rgb.config_file;
\* no code reads the other settings of webhook.
Config == [db : BOOLEAN, rgb : BOOLEAN, webhook : BOOLEAN, url : BOOLEAN,
           urlFile : BOOLEAN, rgbFile : BOOLEAN]

\* The defaults: nothing is enabled.
defaultConfig ==
    [db |-> FALSE, rgb |-> FALSE, webhook |-> FALSE, url |-> FALSE,
     urlFile |-> FALSE, rgbFile |-> FALSE]

TypeOK ==
    /\ LogTypeOK
    /\ migrate \in BOOLEAN
    /\ pc \in {"load", "migrate", "version", "upstream", "build", "wire",
               "serving", "closing", "exited"}
    /\ config \in Config
    /\ next \in 0 .. Len(Registry)
    /\ built \in Seq(Plugins) /\ Len(built) <= next
    /\ \A i, j \in DOMAIN built : built[i] = built[j] => i = j
    /\ closed \in Seq(Plugins)
    /\ schema \in {"old", "dirty", "current"}
    /\ shutdown \in {"no", "waiting", "over"}
    /\ code \in {"none", "0", "1", "killed"}

Init ==
    /\ LogInit
    /\ migrate \in BOOLEAN
    /\ pc = "load" /\ config = defaultConfig
    /\ next = 0 /\ built = <<>> /\ closed = <<>>
    /\ schema \in {"old", "dirty", "current"}
    /\ shutdown = "no" /\ code = "none"

Exit(c) == pc' = "exited" /\ code' = c
Proceed(label) == pc' = label /\ UNCHANGED code

-----------------------------------------------------------------------------
(* Configuration.                                                          *)

\* Where a configuration file may be, in the order of the documentation.
SearchPath == <<"flag", "env", "cwd", "home">>
Places == {"flag", "env", "cwd", "home"}

FirstOf(path, readable) ==
    {path[i] : i \in {j \in DOMAIN path :
        path[j] \in readable /\ \A k \in 1 .. j - 1 : path[k] \notin readable}}

\* findHookConfigFile and findRGBConfigFile: a path that is given is the only
\* one that is tried.
Find(given, readable) ==
    IF given THEN {"flag"} \cap readable ELSE FirstOf(Tail(SearchPath), readable)

\* DATABASE_URL and DATABASE_URL_FILE override the file.
Overridden(c, envUrl, envFile) ==
    [c EXCEPT !.url = @ \/ envUrl, !.urlFile = @ \/ envFile]

\* LoadConfig: a file that does not parse is fatal, one that cannot be read is
\* passed over.
LoadConfig ==
    /\ pc = "load"
    /\ \E given, parses, envUrl, envFile \in BOOLEAN,
          readable \in SUBSET Places,
          file \in Config :
          LET found == Find(given, readable)
              c == IF found = {} THEN defaultConfig ELSE file
          IN IF found # {} /\ ~parses
             THEN Exit("1") /\ UNCHANGED config
             ELSE /\ config' = Overridden(c, envUrl, envFile)
                  /\ Proceed(IF migrate THEN "migrate" ELSE "upstream")
    /\ UNCHANGED <<serviceVars, migrate, buildVars, closed, schema, shutdown>>

\* resolveSecret: a value, or the trimmed contents of a file.
Secrets(value, file) ==
    IF value THEN {"set"} ELSE IF file THEN {"set", "", "error"} ELSE {""}

Dsn == Secrets(config.url, config.urlFile)

-----------------------------------------------------------------------------
(* --migrate: whether or not the plugin is enabled.                        *)

\* Mutant: the error of m.Up is not looked at.
UpFailsUnseen == Proceed("version")
UpFails == Exit("1")

\* RunMigrations.  A migration that fails leaves the schema dirty, and a
\* dirty schema is not migrated; nothing to migrate is not an error.
RunMigrations ==
    /\ pc = "migrate"
    /\ \E dsn \in Dsn :
          \/ dsn # "set" /\ Exit("1") /\ UNCHANGED schema
          \/ /\ dsn = "set" /\ schema # "dirty"
             /\ schema' = "current"
             /\ Proceed("version")
          \/ /\ dsn = "set"
             /\ schema' \in IF schema = "old" THEN {"old", "dirty"} ELSE {schema}
             /\ UpFails
    /\ UNCHANGED <<serviceVars, migrate, config, buildVars, closed, shutdown>>

MigrationVersion ==
    /\ pc = "version"
    /\ \E c \in {"0", "1"} : Exit(c)
    /\ UNCHANGED <<serviceVars, migrate, config, buildVars, closed, schema,
                   shutdown>>

-----------------------------------------------------------------------------
(* The upstream and the plugins.                                           *)

\* url.Parse, of an address that is left out here; an error is fatal.
ParseUpstream ==
    /\ pc = "upstream"
    /\ Proceed("build") \/ Exit("1")
    /\ UNCHANGED <<serviceVars, migrate, config, buildVars, closed, schema,
                   shutdown>>

\* newDatabasePlugin: no URL, or a database that does not answer the ping, is
\* an error; a schema that is not current is not.
DatabaseBuilt == \E dsn \in Dsn : dsn = "set"

\* LoadRGBConfig falls back to the embedded defaults if it finds no file; a
\* file that does not parse or is not valid is an error.
LoadRGBConfig ==
    \E readable \in SUBSET Places, valid \in BOOLEAN :
        Find(config.rgbFile, readable) = {} \/ valid

\* newRGBPlugin: a lamp server that does not answer is an error, a device that
\* it does not have is not.
RGBBuilt == LoadRGBConfig

Built(p) == IF p = "db" THEN DatabaseBuilt ELSE RGBBuilt

Enabled(p) == config[p]

\* A factory that returns nil is passed over.  Mutant: nil is taken for a hook.
NilAppended == Proceed("build") /\ built' = Append(built, "nil")
PassedOver == Proceed("build") /\ UNCHANGED built

\* Mutant: a plugin that fails is left out.
FactoryFailsSkip == Proceed("build")
FactoryFails == Exit("1")

\* BuildPlugins, one factory after the other; an error ends the process, and
\* the plugins built before are not closed.
BuildPlugin ==
    /\ pc = "build" /\ next < Len(Registry)
    /\ LET p == Registry[next + 1] IN
          \/ ~Enabled(p) /\ PassedOver
          \/ /\ Enabled(p) /\ Built(p)
             /\ built' = Append(built, p)
             /\ Proceed("build")
          \/ Enabled(p) /\ FactoryFails /\ UNCHANGED built
    /\ next' = next + 1
    /\ UNCHANGED <<serviceVars, migrate, config, closed, schema, shutdown>>

BuildDone ==
    /\ pc = "build" /\ next = Len(Registry)
    /\ Proceed("wire")
    /\ UNCHANGED <<serviceVars, migrate, config, buildVars, closed, schema,
                   shutdown>>

IsBuilt(p) == \E i \in DOMAIN built : built[i] = p

\* The db plugin is the only ExternalLogger; a token file that cannot be read
\* leaves the endpoint without a token.
Wire ==
    /\ pc = "wire"
    /\ pool' = IF IsBuilt("db") THEN "open" ELSE "absent"
    /\ \E value, file \in BOOLEAN :
          \E token \in Secrets(value, file) : logToken' = (token = "set")
    /\ Proceed("serving")
    /\ UNCHANGED <<logVars, migrate, config, buildVars, closed, schema,
                   shutdown>>

-----------------------------------------------------------------------------
(* Serving and shutdown.                                                   *)

Alive == pc \in {"serving", "closing"}

\* A connection that was accepted before the signal may bring its request
\* after it.
HandleLog(r) ==
    /\ Alive
    /\ Receive(r) \/ LogStep(r)
    /\ UNCHANGED mainVars

\* ListenAndServe returns an error of its own: log.Fatalf.
ServeFails ==
    /\ pc = "serving" /\ shutdown = "no"
    /\ Exit("1")
    /\ UNCHANGED <<serviceVars, migrate, config, buildVars, closed, schema,
                   shutdown>>

\* The first SIGTERM or SIGINT: Shutdown closes the listeners and waits for
\* the handlers, for 10 s at most.
Signal ==
    /\ pc = "serving" /\ shutdown = "no"
    /\ shutdown' = "waiting"
    /\ UNCHANGED <<serviceVars, migrate, pc, config, buildVars, closed, schema,
                   code>>

InFlight(r) == at[r] \in {"begin", "insert", "reply"}

\* Shutdown returns: no handler is running, or the 10 s are over.
ShutdownOver ==
    /\ Alive /\ shutdown = "waiting"
    /\ shutdown' = "over"
    /\ UNCHANGED <<serviceVars, migrate, pc, config, buildVars, closed, schema,
                   code>>

\* ListenAndServe returns as soon as Shutdown has been called.  Mutant: main
\* waits for a Shutdown that has no timeout (ShutdownOver is not fair).
ServerClosedAfter ==
    /\ pc = "serving" /\ shutdown = "over"
    /\ Proceed("closing")
    /\ UNCHANGED <<serviceVars, migrate, config, buildVars, closed, schema,
                   shutdown>>

ServerClosed ==
    /\ pc = "serving" /\ shutdown # "no"
    /\ Proceed("closing")
    /\ UNCHANGED <<serviceVars, migrate, config, buildVars, closed, schema,
                   shutdown>>

\* closePlugins: the next plugin, whose error is logged only.  Mutant: in
\* reverse order.
ToCloseFrom(n) == Len(built) - n
ToClose(n) == n + 1

ClosePlugin ==
    /\ pc = "closing" /\ Len(closed) < Len(built)
    /\ LET p == built[ToClose(Len(closed))] IN
          /\ closed' = Append(closed, p)
          /\ pool' = IF p = "db" THEN "closed" ELSE pool
    /\ UNCHANGED <<logToken, logVars, migrate, pc, config, buildVars, schema,
                   shutdown, code>>

\* main returns and the process ends, whatever Shutdown is waiting for.
MainReturns ==
    /\ pc = "closing" /\ Len(closed) = Len(built)
    /\ Exit("0")
    /\ UNCHANGED <<serviceVars, migrate, config, buildVars, closed, schema,
                   shutdown>>

\* Any other signal, a crash, or a SIGTERM before signal.Notify: the process
\* ends where it is, and the database rolls back what has not been committed.
Killed ==
    /\ pc # "exited"
    /\ Exit("killed")
    /\ UNCHANGED <<serviceVars, migrate, config, buildVars, closed, schema,
                   shutdown>>

-----------------------------------------------------------------------------
StartStep ==
    \/ LoadConfig \/ RunMigrations \/ MigrationVersion
    \/ ParseUpstream \/ BuildPlugin \/ BuildDone \/ Wire

StopStep == ServerClosed \/ ClosePlugin \/ MainReturns

Next ==
    \/ StartStep \/ StopStep
    \/ ServeFails \/ Signal \/ ShutdownOver \/ Killed
    \/ \E r \in LogRequests : HandleLog(r)

Spec == Init /\ [][Next]_vars

\* main runs; a plugin's Close returns (for db: DatabaseHook!CloseTerminates).
\* Nothing is asked of the handlers, which main does not wait for.
FairSpec == Spec /\ WF_vars(StartStep) /\ WF_vars(StopStep)

-----------------------------------------------------------------------------
Before(p, q) ==
    \E m, n \in DOMAIN Registry : m < n /\ Registry[m] = p /\ Registry[n] = q

\* README.md:94-96, "the proxy refuses to start rather than running silently
\* degraded", which the code keeps for the plugins that have a factory: a
\* process that serves has exactly those of them that are enabled, each once,
\* in the order of the registry (plugin.go:52-66, main.go:102-106).  A webhook
\* that is enabled (config.go:25) is not one of them: it is not built, and the
\* process serves without it.
ServesAllEnabled ==
    Alive => /\ \A p \in Plugins : IsBuilt(p) <=> Enabled(p) /\ Registered(p)
             /\ \A i, j \in DOMAIN built : i < j => Before(built[i], built[j])

\* README.md:54-57: --migrate serves nothing, opens no plugin, and reports
\* success only with the schema current, whether or not db is enabled
\* (main.go:70-91).
MigrateOnlyMigrates ==
    migrate => /\ ~Alive /\ built = <<>>
               /\ code = "0" => schema = "current"

\* A clean exit has closed every plugin once, in the order of the registry,
\* so every plugin had its drain before the process ended (main.go:158-180).
CleanExitClosesAll ==
    (pc = "exited" /\ code = "0") => closed = built

\* After a signal the process ends, whatever the handlers are doing
\* (main.go:136-160).
SignalEndsProcess == shutdown = "waiting" ~> pc = "exited"

\* main.go:136, "Graceful shutdown on SIGTERM / SIGINT", with 10 s for the
\* handlers: the process does not end while Shutdown is waiting for one.
ShutdownIsGraceful ==
    (code = "0" /\ \E r \in LogRequests : InFlight(r)) => shutdown = "over"

=============================================================================
