------------------------------ MODULE Settings ------------------------------
(***************************************************************************)
(* The environment of the process: what its operator sets, what the        *)
(* process reads of it when it starts (AppConfigFromEnv, samplerFromEnv,   *)
(* InitStructureLogConfig), and what service.New makes of that.  The list  *)
(* of domains is a text, typed as in Spelling.  For another variable, a    *)
(* value stands for every value the code treats like it: "" for an unset   *)
(* variable too, " " for blanks, "?" for what cannot be read as what the   *)
(* variable is about.                                                      *)
(***************************************************************************)
EXTENDS Spelling

CONSTANT ListLength   \* bound: the longest list that a process is started with

ASSUME SettingsAssumption == ListLength \in Nat

\* The values that differ for the code; parentbased_traceidratio is the default of the
\* sampler, and any other ratio between 0 and 1 is like 0.5.
Environment ==
  [NATS_URL : {"", " ", "x"},
   FORWARDEMAIL_API_TOKEN : {"", "x"},
   AUTH0_DOMAIN : {"", "x"},
   AUTH0_AUDIENCE : {"", "x"},
   AUTH_SERVICE_REQUEST_TIMEOUT : {"", " ", "?", "-1s", "0s", "10s"},
   LOG_LEVEL : {"", "?", "debug", "info", "warn", "error"},
   OTEL_TRACES_SAMPLER :
     {"", " ", "?", "always_on", "always_off", "traceidratio",
      "parentbased_always_on", "parentbased_always_off"},
   OTEL_TRACES_SAMPLER_ARG : {"", "?", "2", "0.5", "0"}]

VARIABLE start   \* the process, once it has started: what was set, and what it
                 \*   made of it; a set with at most one member

-----------------------------------------------------------------------------
\* The variables AppConfigFromEnv insists on, besides FORWARDS_DOMAINS.
Required == {"FORWARDEMAIL_API_TOKEN", "AUTH0_DOMAIN", "AUTH0_AUDIENCE"}

\* What AppConfigFromEnv reports; of the list it looks at the entries.
Missing(e, list) ==
  {v \in Required : e[v] = ""}
    \cup (IF ParseCSV(list) = <<>> THEN {"FORWARDS_DOMAINS"} ELSE {})

\* envOr.
EnvOr(value, fallback) == IF value \in {"", " "} THEN fallback ELSE value

\* durationOr, in seconds; 0 for a duration that is zero or negative.
DurationOr(value, fallback) ==
  CASE value \in {"", " ", "?"} -> fallback [] value = "10s" -> 10 [] OTHER -> 0

\* Not the code: any timeout is used.
AuthServiceTimeoutAsIs(timeout) == timeout

\* New: a timeout it cannot use is replaced.
AuthServiceTimeout(timeout) == IF timeout = 0 THEN 5 ELSE timeout

\* Not the code: a level it does not know is the lowest.
LevelOrDebug(value) ==
  CASE value \in {"", "info"} -> 1 [] value = "warn" -> 2 [] value = "error" -> 3 [] OTHER -> 0

\* InitStructureLogConfig: records are written from debug (0), info (1), warn (2)
\* or error (3) on.
Level(value) ==
  CASE value = "debug" -> 0 [] value = "warn" -> 2 [] value = "error" -> 3 [] OTHER -> 1

\* samplerFromEnv: what is sampled of the traces that begin here, and whether a
\* caller's decision is followed.  A ratio outside [0, 1] is taken for 1.  (NaN, which
\* passes both comparisons, is left out: what it samples is the machine's.)
Sampler(value, arg) ==
  LET ratio == CASE arg = "0" -> "none" [] arg = "0.5" -> "some" [] OTHER -> "all"
  IN CASE value = "always_on" -> [root |-> "all", parent |-> FALSE]
       [] value = "always_off" -> [root |-> "none", parent |-> FALSE]
       [] value = "traceidratio" -> [root |-> ratio, parent |-> FALSE]
       [] value = "parentbased_always_on" -> [root |-> "all", parent |-> TRUE]
       [] value = "parentbased_always_off" -> [root |-> "none", parent |-> TRUE]
       [] OTHER -> [root |-> ratio, parent |-> TRUE]

\* AppConfigFromEnv, with what New, the logger and the tracer make of it.
Config(e, list) ==
  [missing |-> Missing(e, list),
   url |-> EnvOr(e.NATS_URL, "default"),
   domains |-> ParseCSV(list),
   timeout |-> AuthServiceTimeout(DurationOr(e.AUTH_SERVICE_REQUEST_TIMEOUT, 5)),
   level |-> Level(e.LOG_LEVEL),
   sampler |-> Sampler(e.OTEL_TRACES_SAMPLER, e.OTEL_TRACES_SAMPLER_ARG)]

\* run, up to InitInfrastructure: a variable may be missing, and New has a word on
\* the domains.
Refused(c) == c.missing # {} \/ c.domains = <<>>
-----------------------------------------------------------------------------
SInit == Init /\ start = {}

Start ==
  /\ start = {} /\ Len(text) <= ListLength
  /\ \E e \in Environment : start' = {[env |-> e, config |-> Config(e, text)]}
  /\ UNCHANGED text

SNext == (start = {} /\ Next /\ UNCHANGED start) \/ Start
SSpec == SInit /\ [][SNext]_<<text, start>>
-----------------------------------------------------------------------------
(* Properties.                                                             *)

\* A process that goes on has somewhere to connect to, domains to serve, and a
\* timeout that is not over when a call begins; one that refuses names all that
\* is missing, so that the next start succeeds.
UsableOrExplained ==
  \A p \in start :
    LET c == p.config
        Mended(v) == IF v \in c.missing THEN "x" ELSE p.env[v]
        list == IF "FORWARDS_DOMAINS" \in c.missing THEN ManagedDomain ELSE text
    IN IF Refused(c)
         THEN ~Refused(Config([v \in DOMAIN p.env |-> Mended(v)], list))
         ELSE c.url \notin {"", " "} /\ c.domains # <<>> /\ c.timeout > 0

\* A value that cannot be used, for the list, the timeout, the level or the
\* sampler, has the effect of none: the defaults of config.go, forward.go and
\* otel.go agree.
Unusable(v, value) ==
  \/ value \in {" ", "?", "-1s", "0s"}
  \/ v = "OTEL_TRACES_SAMPLER_ARG" /\ value = "2"

UnusableIsUnset ==
  \A p \in start :
    p.config =
      Config([v \in DOMAIN p.env |-> IF Unusable(v, p.env[v]) THEN "" ELSE p.env[v]],
             IF ToSet(text) \subseteq Blank \cup {Comma} THEN <<>> ELSE text)
=============================================================================
