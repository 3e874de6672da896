------------------------------ MODULE Startup ------------------------------
(***************************************************************************)
(* The start of the adapter: GetConfig, redisx.NewPool, clair.NewClient    *)
(* and the choice of the server's protocol, up to the point where Process  *)
(* takes over. One error variable runs through all of it. The environment  *)
(* is one of a set of records; an URL is the kind of URL it is.            *)
(***************************************************************************)
EXTENDS Naturals, Sequences

CONSTANTS
  MaxCAs,     \* bound: how many client CA files are configured
  RedisURLs   \* kinds of Redis URL

\* "redis": standalone, its host and database examined when it is dialed.
\* "monitor": Sentinel with a monitor name. "path": Sentinel with an empty
\* monitor name, as in "redis+sentinel://host:26379/". "bare": Sentinel without a
\* path. "number": Sentinel with a database that is no number. "scheme": another
\* scheme. "garbled": no URL.
RedisKinds == {"redis", "monitor", "path", "bare", "number", "scheme", "garbled"}

\* "postgres": a URL with the driver that is linked in. "driver": one of another
\* database. "garbled": one that dburl cannot parse.
DatabaseKinds == {"none", "postgres", "driver", "garbled"}

\* A CA file holds certificates, or not, or cannot be read.
CAKinds == {"certificates", "other", "missing"}

ASSUME StartupAssumption ==
  /\ MaxCAs \in Nat
  /\ RedisURLs \subseteq RedisKinds

Environments ==
  [variables : {"parsed", "malformed"}, roots : {"loaded", "failed"}, redis : RedisURLs,
   cas : UNION {[1..n -> CAKinds] : n \in 0..MaxCAs}, database : DatabaseKinds,
   certificate : BOOLEAN, key : BOOLEAN]

VARIABLES
  env,    \* the environment of the process
  at,     \* where run stands: "parse", "roots", "cas", "database", "config", "pool",
          \* "clair", "server", "http", "https", or "exited", and in Metadata "killed"
  err,    \* whether the named result err of the function at work is set
  roots   \* the CA files whose certificates are in RootCAs

vars == <<env, at, err, roots>>

TypeOK ==
  /\ env \in Environments
  /\ at \in {"parse", "roots", "cas", "database", "config", "pool", "clair", "server",
             "http", "https", "exited", "killed"}
  /\ err \in BOOLEAN
  /\ roots \in 0..Len(env.cas)

Init ==
  /\ env \in Environments
  /\ at = "parse"
  /\ err = FALSE
  /\ roots = 0

\* A step that sets err and goes on to the next, or returns the error.
Check(step, ok, next) ==
  /\ at = step
  /\ err' = ~ok
  /\ at' = IF ok THEN next ELSE "exited"
  /\ UNCHANGED <<env, roots>>

-----------------------------------------------------------------------------
\* GetConfig.
ParseVariables == Check("parse", env.variables = "parsed", "roots")

\* The error is logged, and an empty pool takes the place of the system's; err
\* stays set.
LoadRoots ==
  /\ at = "roots"
  /\ err' = (env.roots = "failed")
  /\ at' = "cas"
  /\ UNCHANGED <<env, roots>>

\* Mutant: what AppendCertsFromPEM returns is not looked at.
AppendUnchecked ==
  /\ at = "cas"
  /\ IF roots = Len(env.cas)
     THEN at' = "database" /\ UNCHANGED roots
     ELSE IF env.cas[roots + 1] = "missing"
     THEN at' = "exited" /\ UNCHANGED roots
     ELSE roots' = roots + 1 /\ UNCHANGED at
  /\ UNCHANGED <<env, err>>

\* The loop over the client CAs has an err of its own.
AppendCA ==
  /\ at = "cas"
  /\ IF roots = Len(env.cas)
     THEN at' = "database" /\ UNCHANGED roots
     ELSE IF env.cas[roots + 1] = "certificates"
     THEN roots' = roots + 1 /\ UNCHANGED at
     ELSE at' = "exited" /\ UNCHANGED roots
  /\ UNCHANGED <<env, err>>

\* Mutant: the URL is parsed also when there is none.
ParseDatabaseAlways == Check("database", env.database \notin {"none", "garbled"}, "config")

\* Only when there is a URL does dburl.Parse assign err.
ParseDatabaseURL ==
  \/ env.database # "none" /\ Check("database", env.database # "garbled", "config")
  \/ /\ env.database = "none"
     /\ at = "database"
     /\ at' = "config"
     /\ UNCHANGED <<env, err, roots>>

\* run looks at the err that GetConfig returns.
ReturnConfig == Check("config", ~err, "pool")

-----------------------------------------------------------------------------
\* ParseSentinelURL: the path is split at its slashes.
ParsesAsSentinel(url) == url \notin {"bare", "number"}

\* NewPool connects to nothing.
NewPool ==
  Check("pool", env.redis \notin {"garbled", "scheme"} /\ ParsesAsSentinel(env.redis), "clair")

\* sql.Open knows the driver or not, and connects to nothing.
NewClient == Check("clair", env.database \notin {"driver", "garbled"}, "server")

\* Mutant: a certificate without its key is taken for an error.
ListenStrictly ==
  /\ at = "server"
  /\ at' = IF env.certificate = env.key THEN "https" ELSE "refused"
  /\ UNCHANGED <<env, err, roots>>

\* IsTLSEnabled.
Listen ==
  /\ at = "server"
  /\ at' = IF env.certificate /\ env.key THEN "https" ELSE "http"
  /\ UNCHANGED <<env, err, roots>>

Next ==
  \/ ParseVariables \/ LoadRoots \/ AppendCA \/ ParseDatabaseURL \/ ReturnConfig
  \/ NewPool \/ NewClient \/ Listen

Spec == Init /\ [][Next]_vars

-----------------------------------------------------------------------------
Serves == at \in {"http", "https"}

\* What the adapter needs: every CA it was told to trust, a database it can ask
\* if it has one, a Redis server or a master that Sentinel can look up.
Sound ==
  /\ env.variables = "parsed"
  /\ \A i \in DOMAIN env.cas : env.cas[i] = "certificates"
  /\ env.database \in {"none", "postgres"}

Usable == Sound /\ env.redis \in {"redis", "monitor"}

\* The adapter serves only with variables, CAs and a database that it can use, and
\* with all of the CAs: no error is lost on the way through the functions. Its
\* Redis URL names a server or goes through Sentinel; of a monitor name that is
\* empty (pool.go:146) it does not complain.
ServesOnlySound ==
  Serves => /\ Sound /\ env.redis \in {"redis", "monitor", "path"}
            /\ roots = Len(env.cas) /\ ~err

\* It refuses to start only for a configuration that it cannot use, or where the
\* error of the system's CAs, which was to be a warning, surfaces again
\* (config.go:81): no other error outlives the step that made it good.
RefusesOnlyUnusable ==
  at = "exited" => ~Usable \/ (env.roots = "failed" /\ env.database = "none")
=============================================================================
