------------------------------ MODULE Startup ------------------------------
(***************************************************************************)
(* The life of the coordinator process, from config.Load to the end of     *)
(* run: validation, migrations, clients, listeners, dispatcher and tickers,*)
(* graceful shutdown. A second process, started with --migrate-only, may   *)
(* migrate the same database at the same time. golang-migrate is external: *)
(* an advisory lock, the version and the dirty flag of schema_migrations.  *)
(***************************************************************************)
EXTENDS Naturals, FiniteSets

CONSTANTS Configs,    \* the configurations the process may be deployed with
          Latest,     \* number of the last migration
          MaxFaults   \* bound: failures of the environment, crashes and signals

ASSUME StartupAssumption == Latest \in Nat /\ MaxFaults \in Nat

VARIABLES
  conf,      \* the configuration of the deployment, the same for every start
  step,      \* of each process: off, or where it is in run
  failure,   \* of the server: why its last start failed, if it did
  version,   \* schema_migrations.version
  dirty,     \* schema_migrations.dirty
  lock,      \* holder of the advisory lock of golang-migrate
  faults     \* bound: failures so far

svars == <<conf, step, failure, version, dirty, lock, faults>>

Procs == {"server", "job"}
Steps == {"off", "migrate", "version", "apply", "open", "start", "up", "closing", "draining"}

-----------------------------------------------------------------------------
(* Config.validate                                                         *)

\* A configuration has the set of its non-empty strings, its switches, the
\* backend, and its numbers (fractions in thousandths).
LNDFields      == {"lnd_host", "tls_cert_path", "payment_macaroon", "readonly_macaroon", "slashing_macaroon"}
CLNFields      == {"base_url", "api_key"}
ObserverFields == {"signing_key", "api_endpoint"}
S3Fields       == {"endpoint", "bucket", "access_key", "secret_key"}

Backend(c) == IF c.backend = "" THEN "lnd" ELSE c.backend

LightningValid(c) ==
  \/ c.dev
  \/ Backend(c) = "lnd" /\ LNDFields \subseteq c.strings
  \/ Backend(c) = "cln" /\ CLNFields \subseteq c.strings

TierFloor == <<100000, 500000, 2000000>>
TiersValid(c) ==
  /\ \A i \in 1..3 : c.tierMinimum[i] >= TierFloor[i]
  /\ c.tierMinimum[1] <= c.tierMinimum[2] /\ c.tierMinimum[2] <= c.tierMinimum[3]

\* verify_interval_hours, degraded_grace_period_hours, slash_cooldown_days,
\* t1_auto_slash_signals, t2t3_maintainer_acks, min_participants and
\* round_interval_minutes, in this order.
Least == <<1, 1, 1, 3, 2, 2, 1>>
NumbersValid(c) ==
  /\ \A i \in DOMAIN Least : c.numbers[i] >= Least[i]
  /\ c.clipNorm > 0 /\ c.stdDevs > 0 /\ c.topK \in 0..1000

\* Mutant: the CA certificate is not asked for.
ValidNoCA(c) ==
  /\ "dsn" \in c.strings
  /\ LightningValid(c)
  /\ c.observer => ObserverFields \subseteq c.strings
  /\ TiersValid(c) /\ NumbersValid(c)
  /\ S3Fields \cap c.strings \in {{}, S3Fields}

Valid(c) ==
  /\ "dsn" \in c.strings
  /\ LightningValid(c)
  /\ "tls_cert" \in c.strings /\ ~c.dev => "ca_cert" \in c.strings
  /\ c.observer => ObserverFields \subseteq c.strings
  /\ TiersValid(c) /\ NumbersValid(c)
  /\ S3Fields \cap c.strings \in {{}, S3Fields}

\* What run opens by name: the macaroons and the certificate of LND, the
\* signing key, the CA certificate. An empty name is an error, whatever the
\* environment does.
LNDFiles(c)      == IF ~c.dev /\ Backend(c) # "cln" THEN LNDFields \ {"lnd_host"} ELSE {}
ObserverFiles(c) == IF c.observer THEN {"signing_key"} ELSE {}
TLSFiles(c)      == IF {"tls_cert", "tls_key"} \subseteq c.strings /\ ~c.dev THEN {"ca_cert"} ELSE {}

-----------------------------------------------------------------------------
TypeOK ==
  /\ conf \in Configs
  /\ step \in [Procs -> Steps]
  /\ failure \in {"none", "config", "missing", "dirty", "fault"}
  /\ version \in 0..Latest /\ dirty \in BOOLEAN
  /\ lock \in Procs \cup {"free"}
  /\ faults \in 0..MaxFaults

\* An empty database.
StartupInit ==
  /\ conf \in Configs
  /\ step = [p \in Procs |-> "off"]
  /\ failure = "none"
  /\ version = 0 /\ dirty = FALSE
  /\ lock = "free"
  /\ faults = 0

Report(p, why) == failure' = IF p = "server" THEN why ELSE failure

Goto(p, s) == step' = [step EXCEPT ![p] = s] /\ UNCHANGED failure

\* run returns an error; the advisory lock goes with the connection.
Fail(p, why) ==
  /\ step' = [step EXCEPT ![p] = "off"]
  /\ Report(p, why)
  /\ lock' = IF lock = p THEN "free" ELSE lock

-----------------------------------------------------------------------------
(* run                                                                     *)

\* Load and validate, then connect to the database. The job is only of
\* interest while there is something to migrate: otherwise it takes the lock,
\* changes nothing and exits.
Launch(p) ==
  /\ step[p] = "off"
  /\ p = "job" => version < Latest /\ ~dirty
  /\ IF Valid(conf)
     THEN step' = [step EXCEPT ![p] = "migrate"] /\ Report(p, "none")
     ELSE Report(p, "config") /\ UNCHANGED step
  /\ UNCHANGED <<conf, version, dirty, lock, faults>>

\* m.Up takes the lock, reads the version and refuses a dirty one.
LockMigrations(p) ==
  /\ step[p] = "migrate"
  /\ lock = "free"
  /\ lock' = p
  /\ Goto(p, "version")
  /\ UNCHANGED <<conf, version, dirty, faults>>

\* Mutant: every error of m.Up is taken for ErrNoChange.
NextMigrationUnchecked(p) ==
  /\ step[p] = "version"
  /\ IF version < Latest /\ ~dirty
     THEN /\ version' = version + 1
          /\ dirty' = TRUE
          /\ Goto(p, "apply")
          /\ UNCHANGED lock
     ELSE /\ lock' = "free"
          /\ Goto(p, IF p = "job" THEN "off" ELSE "open")
          /\ UNCHANGED <<version, dirty>>
  /\ UNCHANGED <<conf, faults>>

NextMigration(p) ==
  /\ step[p] = "version"
  /\ \/ /\ dirty
        /\ Fail(p, "dirty")
        /\ UNCHANGED <<version, dirty>>
     \/ /\ ~dirty /\ version < Latest
        /\ version' = version + 1
        /\ dirty' = TRUE
        /\ Goto(p, "apply")
        /\ UNCHANGED lock
     \/ /\ ~dirty /\ version = Latest
        /\ lock' = "free"
        /\ Goto(p, IF p = "job" THEN "off" ELSE "open")
        /\ UNCHANGED <<version, dirty>>
  /\ UNCHANGED <<conf, faults>>

ApplyMigration(p) ==
  /\ step[p] = "apply"
  /\ dirty' = FALSE
  /\ Goto(p, "version")
  /\ UNCHANGED <<conf, version, lock, faults>>

\* The Lightning, Redis, S3 and Observer clients, the TLS credentials and the
\* listeners. From the step "start" on, the Tor listener serves.
OpenServices ==
  /\ step["server"] = "open"
  /\ IF LNDFiles(conf) \cup ObserverFiles(conf) \cup TLSFiles(conf) \subseteq conf.strings
     THEN Goto("server", "start") /\ UNCHANGED lock
     ELSE Fail("server", "missing")
  /\ UNCHANGED <<conf, version, dirty, faults>>

\* disp.Start, the tickers and the clearnet listener.
StartServing ==
  /\ step["server"] = "start"
  /\ Goto("server", "up")
  /\ UNCHANGED <<conf, version, dirty, lock, faults>>

\* A database, a file, a port or a Lightning node that does not answer, a
\* statement of a migration that fails, a lock that is not granted in time,
\* a listener that fails: run returns the error.
EnvironmentFails(p) ==
  /\ faults < MaxFaults
  /\ step[p] \in {"migrate", "apply", "open", "up"}
  /\ Fail(p, "fault")
  /\ faults' = faults + 1
  /\ UNCHANGED <<conf, version, dirty>>

Kill(p) ==
  /\ faults < MaxFaults
  /\ step[p] # "off"
  /\ Fail(p, "fault")
  /\ faults' = faults + 1
  /\ UNCHANGED <<conf, version, dirty>>

\* SIGINT or SIGTERM: bgCancel, then httpSrv.Shutdown, which waits without a
\* deadline for the requests of the metrics server. gRPC calls still come in.
Shutdown ==
  /\ faults < MaxFaults
  /\ step["server"] = "up"
  /\ Goto("server", "closing")
  /\ faults' = faults + 1
  /\ UNCHANGED <<conf, version, dirty, lock>>

\* The last of those requests ends, if it does, and GracefulStop begins.
CloseHTTP ==
  /\ step["server"] = "closing"
  /\ Goto("server", "draining")
  /\ UNCHANGED <<conf, version, dirty, lock, faults>>

Stopped ==
  /\ step["server"] = "draining"
  /\ Goto("server", "off")
  /\ UNCHANGED <<conf, version, dirty, lock, faults>>

Migrate(p) == LockMigrations(p) \/ NextMigration(p) \/ ApplyMigration(p)

Run == Migrate("server") \/ OpenServices \/ StartServing

\* The steps that end no process that serves.
StartupStep ==
  \/ \E p \in Procs : Launch(p) \/ Migrate(p)
  \/ OpenServices \/ StartServing \/ Shutdown \/ CloseHTTP

StartupNext ==
  \/ StartupStep
  \/ \E p \in Procs : EnvironmentFails(p) \/ Kill(p)
  \/ Stopped

StartupSpec == StartupInit /\ [][StartupNext]_svars

-----------------------------------------------------------------------------
Serving == step["server"] \in {"up", "closing", "draining"} \/ (conf.tor /\ step["server"] = "start")

\* A server that serves has the whole schema under it, clean, whatever
\* another process has been migrating and wherever either of them died.
ServesMigrated == Serving => version = Latest /\ ~dirty

\* A configuration that passes validate names every file that run opens: no
\* start fails because of it once the migrations have been applied.
ConfigSuffices == failure # "missing"
=============================================================================
