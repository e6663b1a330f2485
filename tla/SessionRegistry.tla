-------------------------- MODULE SessionRegistry --------------------------
(***************************************************************************)
(* The session registry of the MCP server (mcp/mcp.go, type Registry): the *)
(* map from session names to configurations, the cache of live sessions,   *)
(* and the mutex that guards both.  Tool calls run concurrently, so every  *)
(* operation is an action of some caller.  A critical section that the     *)
(* code runs without blocking is one action; Get keeps the mutex while the *)
(* factory talks to Batfish, so it takes and releases it in two actions,   *)
(* and Register is two critical sections with the mutex free in between.   *)
(***************************************************************************)
EXTENDS Naturals

CONSTANTS
    Callers,       \* goroutines that run tool calls or use the Go API
    Names,         \* session names
    Default,       \* the name "default"
    Entries,       \* session configurations: host, port, TLS, API key
    DefaultEntry,  \* the entry LoadConfig adds: BATFISH_HOST or localhost
    Precreated,    \* the entry SetPrecreated stores: no parameters at all
    NoEntry,       \* no configuration under that name
    NoSession,     \* no session
    NoCaller,      \* the mutex is free
    MaxSessions    \* bound: sessions made in one behaviour

ASSUME NamesAssumption == Default \in Names
ASSUME EntriesAssumption ==
    /\ DefaultEntry \in Entries
    /\ Precreated \notin Entries
    /\ NoEntry \notin Entries \cup {Precreated}
ASSUME CallersAssumption == NoCaller \notin Callers
ASSUME BoundAssumption == MaxSessions \in Nat

(***************************************************************************)
(* A session is told apart by an identity and remembers the configuration  *)
(* it was made from.                                                       *)
(***************************************************************************)
Config == Entries \cup {Precreated}
Session == [id : Nat, from : Config]

ASSUME SessionAssumption == NoSession \notin Session

VARIABLES
    phase,      \* of the Server that owns the registry
    mu,         \* who holds Registry.mu
    configs,    \* Registry.configs
    cache,      \* Registry.cache
    made,       \* sessions made so far, to give each one an identity
    closed,     \* sessions whose Close method has run
    pc,         \* where each caller is
    call        \* what each caller asked for, and the session it was given

registryVars == <<configs, cache, made, closed>>
callerVars == <<pc, call>>
vars == <<phase, mu, registryVars, callerVars>>

(***************************************************************************)
(* "get": about to lock in Get; "factory": in Get, holding the mutex, with *)
(* the factory running; "using": Get has returned a session.  The entry of *)
(* a call is the one it works with: the entry given to Register, then the  *)
(* entry that Get read from configs and handed to the factory.             *)
(***************************************************************************)
Idle == [op |-> "none", name |-> Default, want |-> NoEntry,
         entry |-> NoEntry, session |-> NoSession]

Call == [op : {"none", "get", "register"}, name : Names,
         want : Config \cup {NoEntry}, entry : Config \cup {NoEntry},
         session : Session \cup {NoSession}]

TypeOK ==
    /\ phase \in {"boot", "serving", "closed", "failed"}
    /\ mu \in Callers \cup {NoCaller}
    /\ configs \in [Names -> Config \cup {NoEntry}]
    /\ cache \in [Names -> Session \cup {NoSession}]
    /\ made \in Nat
    /\ closed \subseteq Session
    /\ pc \in [Callers -> {"idle", "get", "factory", "using"}]
    /\ call \in [Callers -> Call]

Init ==
    /\ phase = "boot"
    /\ mu = NoCaller
    /\ configs = [n \in Names |-> NoEntry]
    /\ cache = [n \in Names |-> NoSession]
    /\ made = 0
    /\ closed = {}
    /\ pc = [c \in Callers |-> "idle"]
    /\ call = [c \in Callers |-> Idle]

Free == mu = NoCaller

(* A critical section that blocks takes the mutex and gives it back later. *)
LockForgotten(c) == UNCHANGED mu
Lock(c) == Free /\ mu' = c

Unlock == mu' = NoCaller

(* delete(r.cache, name), and the assignment of a new map to r.cache.       *)
EvictNothing(n) == UNCHANGED cache
Evict(n) == cache' = [cache EXCEPT ![n] = NoSession]

EvictNone == UNCHANGED cache
EvictAll == cache' = [n \in Names |-> NoSession]

Running == phase \in {"serving", "closed"}

(***************************************************************************)
(* NewServer: LoadConfig with the entries of the sessions file (or none,   *)
(* when there is no file), then SetPrecreated when Options.DefaultSession  *)
(* is set.  Nobody else has the registry yet.  A file that does not parse  *)
(* or cannot be read makes NewServer fail.                                 *)
(***************************************************************************)
LoadConfig(file) ==
    [n \in Names |-> IF n = Default /\ file[n] = NoEntry
                     THEN DefaultEntry
                     ELSE file[n]]

NewServer(file) ==
    /\ phase = "boot"
    /\ configs' = LoadConfig(file)
    /\ phase' = "serving"
    /\ UNCHANGED <<mu, cache, made, closed, callerVars>>

NewServerWithDefault(file) ==
    /\ phase = "boot"
    /\ made < MaxSessions
    /\ configs' = [LoadConfig(file) EXCEPT ![Default] = Precreated]
    /\ made' = made + 1
    /\ cache' = [cache EXCEPT ![Default] = [id |-> made + 1, from |-> Precreated]]
    /\ phase' = "serving"
    /\ UNCHANGED <<mu, closed, callerVars>>

NewServerFails ==
    /\ phase = "boot"
    /\ phase' = "failed"
    /\ UNCHANGED <<mu, registryVars, callerVars>>

-----------------------------------------------------------------------------
(* Registry.Get, from the lookup of a tool call to its return.              *)

BeginGet(c, n) ==
    /\ Running
    /\ pc[c] = "idle"
    /\ pc' = [pc EXCEPT ![c] = "get"]
    /\ call' = [call EXCEPT ![c] = [Idle EXCEPT !.op = "get", !.name = n]]
    /\ UNCHANGED <<phase, mu, registryVars>>

GetHit(c) ==
    /\ pc[c] = "get" /\ Free
    /\ cache[call[c].name] # NoSession
    /\ pc' = [pc EXCEPT ![c] = "using"]
    /\ call' = [call EXCEPT ![c].session = cache[call[c].name]]
    /\ UNCHANGED <<phase, mu, registryVars>>

GetUnknown(c) ==
    /\ pc[c] = "get" /\ Free
    /\ cache[call[c].name] = NoSession
    /\ configs[call[c].name] = NoEntry
    /\ pc' = [pc EXCEPT ![c] = "idle"]
    /\ call' = [call EXCEPT ![c] = Idle]
    /\ UNCHANGED <<phase, mu, registryVars>>

GetMissUnchecked(c) ==
    /\ pc[c] = "get"
    /\ cache[call[c].name] = NoSession
    /\ Lock(c)
    /\ pc' = [pc EXCEPT ![c] = "factory"]
    /\ call' = [call EXCEPT ![c].entry = configs[call[c].name]]
    /\ UNCHANGED <<phase, registryVars>>

(* Not cached but configured: keep the mutex and run the factory.           *)
GetMiss(c) ==
    /\ pc[c] = "get"
    /\ cache[call[c].name] = NoSession
    /\ configs[call[c].name] # NoEntry
    /\ Lock(c)
    /\ pc' = [pc EXCEPT ![c] = "factory"]
    /\ call' = [call EXCEPT ![c].entry = configs[call[c].name]]
    /\ UNCHANGED <<phase, registryVars>>

(* The factory succeeds: the session is cached and the mutex released.      *)
FactoryOk(c) ==
    LET s == [id |-> made + 1, from |-> call[c].entry]
    IN  /\ pc[c] = "factory"
        /\ made < MaxSessions
        /\ made' = made + 1
        /\ cache' = [cache EXCEPT ![call[c].name] = s]
        /\ Unlock
        /\ pc' = [pc EXCEPT ![c] = "using"]
        /\ call' = [call EXCEPT ![c].session = s]
        /\ UNCHANGED <<phase, configs, closed>>

FactoryFailLocked(c) ==
    /\ pc[c] = "factory"
    /\ pc' = [pc EXCEPT ![c] = "idle"]
    /\ call' = [call EXCEPT ![c] = Idle]
    /\ UNCHANGED <<phase, mu, registryVars>>

(* The factory fails (the questions cannot be loaded): nothing is cached.   *)
FactoryFail(c) ==
    /\ pc[c] = "factory"
    /\ Unlock
    /\ pc' = [pc EXCEPT ![c] = "idle"]
    /\ call' = [call EXCEPT ![c] = Idle]
    /\ UNCHANGED <<phase, registryVars>>

(* The tool call that asked for the session ends.                           *)
Finish(c) ==
    /\ pc[c] = "using"
    /\ pc' = [pc EXCEPT ![c] = "idle"]
    /\ call' = [call EXCEPT ![c] = Idle]
    /\ UNCHANGED <<phase, mu, registryVars>>

-----------------------------------------------------------------------------
(* The operations that write the registry.                                  *)

(* The first critical section of Register; its call of Get follows.         *)
Register(c, n, e) ==
    /\ Running
    /\ pc[c] = "idle" /\ Free
    /\ configs' = [configs EXCEPT ![n] = e]
    /\ Evict(n)
    /\ pc' = [pc EXCEPT ![c] = "get"]
    /\ call' = [call EXCEPT ![c] =
                   [Idle EXCEPT !.op = "register", !.name = n, !.want = e]]
    /\ UNCHANGED <<phase, mu, made, closed>>

SetPrecreated(n) ==
    /\ Running /\ Free
    /\ made < MaxSessions
    /\ made' = made + 1
    /\ configs' = [configs EXCEPT ![n] = Precreated]
    /\ cache' = [cache EXCEPT ![n] = [id |-> made + 1, from |-> Precreated]]
    /\ UNCHANGED <<phase, mu, closed, callerVars>>

(* Clear drops the cached sessions without closing them.                    *)
Clear ==
    /\ Running /\ Free
    /\ configs' = [n \in Names |-> NoEntry]
    /\ EvictAll
    /\ UNCHANGED <<phase, mu, made, closed, callerVars>>

(* Server.Close, which may run while tool calls are still being served.     *)
Close ==
    /\ Running /\ Free
    /\ phase' = "closed"
    /\ closed' = closed \cup {cache[n] : n \in {m \in Names : cache[m] # NoSession}}
    /\ EvictAll
    /\ UNCHANGED <<mu, configs, made, callerVars>>

Get(c) == GetHit(c) \/ GetUnknown(c) \/ GetMiss(c)

Next ==
    \/ \E file \in [Names -> Entries \cup {NoEntry}] :
          NewServer(file) \/ NewServerWithDefault(file)
    \/ NewServerFails
    \/ \E c \in Callers, n \in Names :
          BeginGet(c, n) \/ (\E e \in Entries : Register(c, n, e))
    \/ \E c \in Callers :
          Get(c) \/ FactoryOk(c) \/ FactoryFail(c) \/ Finish(c)
    \/ \E n \in Names : SetPrecreated(n)
    \/ Clear
    \/ Close

Spec == Init /\ [][Next]_vars

(***************************************************************************)
(* A waiting goroutine gets the mutex in the end: Go's Mutex hands it over *)
(* to one that has waited 1 ms.  A factory call returns: its HTTP client   *)
(* has a bounded number of attempts.  A tool call ends.                    *)
(***************************************************************************)
Fairness ==
    \A c \in Callers :
        /\ SF_vars(Get(c))
        /\ WF_vars(FactoryOk(c) \/ FactoryFail(c))
        /\ WF_vars(Finish(c))

FairSpec == Spec /\ Fairness

-----------------------------------------------------------------------------
(* Properties.                                                              *)

(* A cached session is the one its name's current configuration asks for:  *)
(* no tool call is served by a session left over from a configuration that *)
(* Register, SetPrecreated or Clear has replaced, even when the factory    *)
(* was already running for the old one.                                    *)
CacheMatchesConfig ==
    \A n \in Names : cache[n] # NoSession => cache[n].from = configs[n]

(* No session that Close has closed can be handed out again by Get.        *)
CacheHoldsNoClosedSession ==
    \A n \in Names : cache[n] \notin closed

(* Sessions are created lazily and cached: however many callers miss at    *)
(* once, only the first factory call makes a session.  A cached session is *)
(* never displaced by another factory's session, so two callers that use   *)
(* one name share one session until that name is registered again.  The    *)
(* contract below says so too; this form is the one a reader asks for.     *)
CachedSessionNeverDisplaced ==
    [][\A n \in Names :
          cache[n] # NoSession /\ cache'[n] # cache[n]
              => cache'[n] = NoSession \/ configs'[n] = Precreated]_vars

(* The factory only ever runs for an entry that is still current, and for  *)
(* a name that has no session: this is what holding mu over the call buys. *)
FactoryServesCurrentConfig ==
    \A c \in Callers : pc[c] = "factory" =>
        /\ call[c].entry = configs[call[c].name]
        /\ cache[call[c].name] = NoSession

(* Every call that asks for a session gets one or an error, whatever the   *)
(* other callers do: no path out of Get keeps the mutex.                   *)
EveryGetReturns ==
    \A c \in Callers : pc[c] \in {"get", "factory"} ~> pc[c] \in {"idle", "using"}

(* What the comment on Register says (mcp.go:117): the session it returns  *)
(* was created from the parameters it was given.  A session that the Go    *)
(* API pre-created under the name meanwhile is not held against it.        *)
RegisterReturnsItsOwnSession ==
    \A c \in Callers :
        pc[c] = "using" /\ call[c].op = "register"
            => call[c].session.from \in {call[c].want, Precreated}

(* What the comment on SetPrecreated says (mcp.go:129-130): a session      *)
(* registered that way bypasses the factory.                               *)
PrecreatedBypassesFactory ==
    \A c \in Callers : pc[c] = "factory" => call[c].entry # Precreated

(* Of the two comments, one at least is true: a state that is not so refutes *)
(* both.                                                                    *)
SessionsMadeAsDocumented == RegisterReturnsItsOwnSession \/ PrecreatedBypassesFactory

(* The registry behaves as RegistryContract says, as if each Get were one  *)
(* atomic step: the caller waits from its lookup until it is answered, and *)
(* the end of the factory call is the moment the session is made.          *)
Waiting(c) == pc[c] \in {"get", "factory"}

Contract == INSTANCE RegistryContract WITH
    open  <- Running,
    asked <- [c \in Callers |-> IF Waiting(c) THEN {call[c].name} ELSE {}],
    given <- [c \in Callers |-> call[c].session]

ImplementsContract == Contract!Spec

(* The inductive strengthening used in SessionRegistryProofs: only the     *)
(* holder of the mutex is inside the factory, and identities are fresh.    *)
LockDiscipline ==
    \A c \in Callers : pc[c] = "factory" <=> mu = c

IdentitiesBelowMade ==
    /\ \A n \in Names : cache[n] # NoSession => cache[n].id <= made
    /\ \A s \in closed : s.id <= made

NothingBeforeServing ==
    phase = "boot" =>
        /\ \A n \in Names : cache[n] = NoSession
        /\ \A c \in Callers : pc[c] = "idle"

IInv ==
    /\ TypeOK
    /\ NothingBeforeServing
    /\ LockDiscipline
    /\ FactoryServesCurrentConfig
    /\ CacheMatchesConfig
    /\ IdentitiesBelowMade
    /\ CacheHoldsNoClosedSession
=============================================================================
