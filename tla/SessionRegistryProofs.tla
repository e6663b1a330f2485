----------------------- MODULE SessionRegistryProofs -----------------------
(***************************************************************************)
(* Proofs that the registry's safety properties hold for any callers,      *)
(* names, configurations and number of sessions.                           *)
(***************************************************************************)
EXTENDS SessionRegistry, TLAPS

USE DEF registryVars, callerVars, vars

(***************************************************************************)
(* The disjuncts of Next, as the cases that the proofs below split on.     *)
(***************************************************************************)
Files == [Names -> Entries \cup {NoEntry}]

(* A step is one of these; the entries of a sessions file are Files.       *)
LEMMA NextCases ==
    ASSUME [Next]_vars, NEW P,
           ASSUME NEW file \in Files, NewServer(file) PROVE P,
           ASSUME NEW file \in Files, NewServerWithDefault(file) PROVE P,
           NewServerFails => P,
           ASSUME NEW c \in Callers, NEW n \in Names, BeginGet(c, n) PROVE P,
           ASSUME NEW c \in Callers, NEW n \in Names, NEW e \in Entries,
                  Register(c, n, e) PROVE P,
           ASSUME NEW c \in Callers, GetHit(c) PROVE P,
           ASSUME NEW c \in Callers, GetUnknown(c) PROVE P,
           ASSUME NEW c \in Callers, GetMiss(c) PROVE P,
           ASSUME NEW c \in Callers, FactoryOk(c) PROVE P,
           ASSUME NEW c \in Callers, FactoryFail(c) PROVE P,
           ASSUME NEW c \in Callers, Finish(c) PROVE P,
           ASSUME NEW n \in Names, SetPrecreated(n) PROVE P,
           Clear => P,
           Close => P,
           UNCHANGED vars => P
    PROVE  P
BY DEF Next, Get, Files

(***************************************************************************)
(* TypeOK is inductive with one more fact: a caller enters the factory     *)
(* only with the configuration it found, so the session made has one.      *)
(***************************************************************************)
FactoryHasEntry == \A c \in Callers : pc[c] = "factory" => call[c].entry # NoEntry

Typed == TypeOK /\ FactoryHasEntry

(* The registry starts with its types.                                     *)
LEMMA InitTyped == Init => Typed
BY NamesAssumption DEF Init, Typed, FactoryHasEntry, TypeOK, Idle, Call

(* Every step keeps them.                                                  *)
LEMMA TypedPreserved == Typed /\ [Next]_vars => Typed'
<1> SUFFICES ASSUME Typed, [Next]_vars PROVE Typed'
    OBVIOUS
<1> USE NamesAssumption, EntriesAssumption, BoundAssumption, SessionAssumption
        DEF Typed, FactoryHasEntry, TypeOK, Idle, Call, Session, Config
<1>1. ASSUME NEW file \in Files, NewServer(file) PROVE Typed'
    BY <1>1 DEF NewServer, LoadConfig, Files
<1>2. ASSUME NEW file \in Files, NewServerWithDefault(file) PROVE Typed'
    BY <1>2 DEF NewServerWithDefault, LoadConfig, Files
<1>3. ASSUME NewServerFails PROVE Typed'
    BY <1>3 DEF NewServerFails
<1>4. ASSUME NEW c \in Callers, NEW n \in Names, BeginGet(c, n) PROVE Typed'
    BY <1>4 DEF BeginGet
<1>5. ASSUME NEW c \in Callers, NEW n \in Names, NEW e \in Entries,
             Register(c, n, e) PROVE Typed'
    BY <1>5 DEF Register, Evict
<1>6. ASSUME NEW c \in Callers, GetHit(c) PROVE Typed'
    BY <1>6, SMTT(30) DEF GetHit
<1>7. ASSUME NEW c \in Callers, GetUnknown(c) PROVE Typed'
    BY <1>7 DEF GetUnknown
<1>8. ASSUME NEW c \in Callers, GetMiss(c) PROVE Typed'
    <2>1. PICK n \in Names : n = call[c].name /\ configs[n] # NoEntry
        BY <1>8 DEF GetMiss
    <2>2. call' = [call EXCEPT ![c].entry = configs[n]]
        BY <1>8, <2>1 DEF GetMiss
    <2>3. [call[c] EXCEPT !.entry = configs[n]] \in Call
        BY SMTT(30)
    <2>4. call' \in [Callers -> Call]
        BY <2>2, <2>3
    <2>5. FactoryHasEntry'
        BY <1>8, <2>1, <2>2 DEF GetMiss
    <2> QED
        BY <1>8, <2>4, <2>5 DEF GetMiss, Lock
<1>9. ASSUME NEW c \in Callers, FactoryOk(c) PROVE Typed'
    BY <1>9 DEF FactoryOk, Unlock
<1>10. ASSUME NEW c \in Callers, FactoryFail(c) PROVE Typed'
    BY <1>10 DEF FactoryFail, Unlock
<1>11. ASSUME NEW c \in Callers, Finish(c) PROVE Typed'
    BY <1>11 DEF Finish
<1>12. ASSUME NEW n \in Names, SetPrecreated(n) PROVE Typed'
    BY <1>12 DEF SetPrecreated
<1>13. ASSUME Clear PROVE Typed'
    BY <1>13 DEF Clear, EvictAll
<1>14. ASSUME Close PROVE Typed'
    BY <1>14 DEF Close, EvictAll
<1>15. ASSUME UNCHANGED vars PROVE Typed'
    BY <1>15
<1> QED
    BY <1>1, <1>2, <1>3, <1>4, <1>5, <1>6, <1>7, <1>8, <1>9, <1>10, <1>11,
       <1>12, <1>13, <1>14, <1>15, NextCases

(* Every variable keeps its type, for every number of callers and names.   *)
THEOREM TypeCorrect == Spec => []TypeOK
<1>1. Typed => TypeOK
    BY DEF Typed
<1> QED
    BY <1>1, InitTyped, TypedPreserved, PTL DEF Spec

-----------------------------------------------------------------------------
(***************************************************************************)
(* Being inside the factory and holding mu are the same thing.             *)
(***************************************************************************)
LEMMA LockPreserved ==
    TypeOK /\ LockDiscipline /\ [Next]_vars => LockDiscipline'
<1> SUFFICES ASSUME TypeOK, LockDiscipline, [Next]_vars PROVE LockDiscipline'
    OBVIOUS
<1> USE NamesAssumption, CallersAssumption
        DEF TypeOK, Idle, LockDiscipline
<1>1. ASSUME NEW file \in Files, NewServer(file) PROVE LockDiscipline'
    BY <1>1 DEF NewServer, LoadConfig, Files
<1>2. ASSUME NEW file \in Files, NewServerWithDefault(file) PROVE LockDiscipline'
    BY <1>2 DEF NewServerWithDefault, LoadConfig, Files
<1>3. ASSUME NewServerFails PROVE LockDiscipline'
    BY <1>3 DEF NewServerFails
<1>4. ASSUME NEW c \in Callers, NEW n \in Names, BeginGet(c, n) PROVE LockDiscipline'
    BY <1>4 DEF BeginGet
<1>5. ASSUME NEW c \in Callers, NEW n \in Names, NEW e \in Entries,
             Register(c, n, e) PROVE LockDiscipline'
    BY <1>5 DEF Register, Evict, Free
<1>6. ASSUME NEW c \in Callers, GetHit(c) PROVE LockDiscipline'
    BY <1>6 DEF GetHit, Free
<1>7. ASSUME NEW c \in Callers, GetUnknown(c) PROVE LockDiscipline'
    BY <1>7 DEF GetUnknown, Free
<1>8. ASSUME NEW c \in Callers, GetMiss(c) PROVE LockDiscipline'
    BY <1>8 DEF GetMiss, Lock, Free
<1>9. ASSUME NEW c \in Callers, FactoryOk(c) PROVE LockDiscipline'
    BY <1>9 DEF FactoryOk, Unlock
<1>10. ASSUME NEW c \in Callers, FactoryFail(c) PROVE LockDiscipline'
    BY <1>10 DEF FactoryFail, Unlock
<1>11. ASSUME NEW c \in Callers, Finish(c) PROVE LockDiscipline'
    BY <1>11 DEF Finish
<1>12. ASSUME NEW n \in Names, SetPrecreated(n) PROVE LockDiscipline'
    BY <1>12 DEF SetPrecreated, Free
<1>13. ASSUME Clear PROVE LockDiscipline'
    BY <1>13 DEF Clear, EvictAll, Free
<1>14. ASSUME Close PROVE LockDiscipline'
    BY <1>14 DEF Close, EvictAll, Free
<1>15. ASSUME UNCHANGED vars PROVE LockDiscipline'
    BY <1>15
<1> QED
    BY <1>1, <1>2, <1>3, <1>4, <1>5, <1>6, <1>7, <1>8, <1>9, <1>10, <1>11,
       <1>12, <1>13, <1>14, <1>15, NextCases

-----------------------------------------------------------------------------
(***************************************************************************)
(* The cache agrees with the configurations, and holds no closed session.  *)
(* While a factory runs, its caller holds mu, so no other critical section *)
(* can register, evict or cache anything in between; the session it makes  *)
(* has an identity above all earlier ones, hence is not a closed one.      *)
(***************************************************************************)
Coherent ==
    /\ NothingBeforeServing
    /\ FactoryServesCurrentConfig
    /\ CacheMatchesConfig
    /\ IdentitiesBelowMade
    /\ CacheHoldsNoClosedSession

(* The registry starts with an empty cache and a free mutex.               *)
LEMMA InitCoherent == Init => LockDiscipline /\ Coherent
BY CallersAssumption
   DEF Init, LockDiscipline, Coherent, FactoryServesCurrentConfig,
       CacheMatchesConfig, IdentitiesBelowMade, CacheHoldsNoClosedSession,
       NothingBeforeServing

(* Every step keeps cache and configurations together.                     *)
LEMMA CoherentPreserved ==
    ASSUME TypeOK, TypeOK', LockDiscipline, Coherent, [Next]_vars
    PROVE  Coherent'
<1> USE CallersAssumption, SessionAssumption
        DEF TypeOK, Session, LockDiscipline, Idle, Coherent,
            FactoryServesCurrentConfig, CacheMatchesConfig,
            IdentitiesBelowMade, CacheHoldsNoClosedSession,
            NothingBeforeServing, Running
<1>1. ASSUME NEW file \in Files, NewServer(file) PROVE Coherent'
    BY <1>1 DEF NewServer, LoadConfig, Files
<1>2. ASSUME NEW file \in Files, NewServerWithDefault(file) PROVE Coherent'
    BY <1>2 DEF NewServerWithDefault, LoadConfig, Files
<1>3. ASSUME NewServerFails PROVE Coherent'
    BY <1>3 DEF NewServerFails
<1>4. ASSUME NEW c \in Callers, NEW n \in Names, BeginGet(c, n) PROVE Coherent'
    BY <1>4 DEF BeginGet
<1>5. ASSUME NEW c \in Callers, NEW n \in Names, NEW e \in Entries,
             Register(c, n, e) PROVE Coherent'
    BY <1>5 DEF Register, Evict, Free
<1>6. ASSUME NEW c \in Callers, GetHit(c) PROVE Coherent'
    BY <1>6 DEF GetHit, Free
<1>7. ASSUME NEW c \in Callers, GetUnknown(c) PROVE Coherent'
    BY <1>7 DEF GetUnknown, Free
<1>8. ASSUME NEW c \in Callers, GetMiss(c) PROVE Coherent'
    BY <1>8 DEF GetMiss, Lock, Free
<1>9. ASSUME NEW c \in Callers, FactoryOk(c) PROVE Coherent'
    BY <1>9 DEF FactoryOk, Unlock
<1>10. ASSUME NEW c \in Callers, FactoryFail(c) PROVE Coherent'
    BY <1>10 DEF FactoryFail, Unlock
<1>11. ASSUME NEW c \in Callers, Finish(c) PROVE Coherent'
    BY <1>11 DEF Finish
<1>12. ASSUME NEW n \in Names, SetPrecreated(n) PROVE Coherent'
    BY <1>12 DEF SetPrecreated, Free
<1>13. ASSUME Clear PROVE Coherent'
    BY <1>13 DEF Clear, EvictAll, Free
<1>14. ASSUME Close PROVE Coherent'
    BY <1>14 DEF Close, EvictAll, Free
<1>15. ASSUME UNCHANGED vars PROVE Coherent'
    BY <1>15
<1> QED
    BY <1>1, <1>2, <1>3, <1>4, <1>5, <1>6, <1>7, <1>8, <1>9, <1>10, <1>11,
       <1>12, <1>13, <1>14, <1>15, NextCases

(***************************************************************************)
(* IInv, the conjunction of all of these, is an inductive invariant.       *)
(***************************************************************************)
THEOREM RegistryInvariant == Spec => []IInv
<1> DEFINE Inv == TypeOK /\ LockDiscipline /\ Coherent
<1>1. Init => Inv
    BY InitTyped, InitCoherent DEF Typed
<1>2. TypeOK /\ TypeOK' /\ Inv /\ [Next]_vars => Inv'
    BY LockPreserved, CoherentPreserved
<1>3. Inv => IInv
    BY DEF IInv, Coherent
<1> QED
    BY <1>1, <1>2, <1>3, TypeCorrect, PTL DEF Spec

(* The three safety invariants that TLC checks on a small registry.        *)
THEOREM CacheIsCoherent == Spec => []CacheMatchesConfig
<1>1. IInv => CacheMatchesConfig
    BY DEF IInv
<1> QED
    BY <1>1, RegistryInvariant, PTL

(* Close drops what it closes, and no identity is given twice, so no call  *)
(* is ever served by a closed session.                                     *)
THEOREM ClosedSessionsStayOut == Spec => []CacheHoldsNoClosedSession
<1>1. IInv => CacheHoldsNoClosedSession
    BY DEF IInv
<1> QED
    BY <1>1, RegistryInvariant, PTL

(* While the factory talks to Batfish nobody changes what it was asked to  *)
(* make.                                                                   *)
THEOREM FactoryRunsUnderTheLock == Spec => []FactoryServesCurrentConfig
<1>1. IInv => FactoryServesCurrentConfig
    BY DEF IInv
<1> QED
    BY <1>1, RegistryInvariant, PTL

-----------------------------------------------------------------------------
(* No step replaces a cached session by another factory's session: the     *)
(* only steps that could are the ends of factory calls, and those run for  *)
(* names that have none, because the caller has held mu since it looked.   *)
Displaced ==
    \E n \in Names :
        /\ cache[n] # NoSession /\ cache'[n] # cache[n]
        /\ cache'[n] # NoSession /\ configs'[n] # Precreated

(* No step of the registry is of that kind.                                *)
LEMMA NeverDisplaced ==
    ASSUME TypeOK, LockDiscipline, Coherent, [Next]_vars
    PROVE  ~Displaced
<1> USE DEF TypeOK, Coherent, FactoryServesCurrentConfig,
            NothingBeforeServing, Displaced
<1>1. ASSUME NEW file \in Files, NewServer(file) PROVE ~Displaced
    BY <1>1 DEF NewServer, LoadConfig, Files
<1>2. ASSUME NEW file \in Files, NewServerWithDefault(file) PROVE ~Displaced
    BY <1>2 DEF NewServerWithDefault, LoadConfig, Files
<1>3. ASSUME NewServerFails PROVE ~Displaced
    BY <1>3 DEF NewServerFails
<1>4. ASSUME NEW c \in Callers, NEW n \in Names, BeginGet(c, n) PROVE ~Displaced
    BY <1>4 DEF BeginGet
<1>5. ASSUME NEW c \in Callers, NEW n \in Names, NEW e \in Entries,
             Register(c, n, e) PROVE ~Displaced
    BY <1>5 DEF Register, Evict, Free
<1>6. ASSUME NEW c \in Callers, GetHit(c) PROVE ~Displaced
    BY <1>6 DEF GetHit, Free
<1>7. ASSUME NEW c \in Callers, GetUnknown(c) PROVE ~Displaced
    BY <1>7 DEF GetUnknown, Free
<1>8. ASSUME NEW c \in Callers, GetMiss(c) PROVE ~Displaced
    BY <1>8 DEF GetMiss, Lock, Free
<1>9. ASSUME NEW c \in Callers, FactoryOk(c) PROVE ~Displaced
    BY <1>9 DEF FactoryOk, Unlock
<1>10. ASSUME NEW c \in Callers, FactoryFail(c) PROVE ~Displaced
    BY <1>10 DEF FactoryFail, Unlock
<1>11. ASSUME NEW c \in Callers, Finish(c) PROVE ~Displaced
    BY <1>11 DEF Finish
<1>12. ASSUME NEW n \in Names, SetPrecreated(n) PROVE ~Displaced
    BY <1>12 DEF SetPrecreated, Free
<1>13. ASSUME Clear PROVE ~Displaced
    BY <1>13 DEF Clear, EvictAll, Free
<1>14. ASSUME Close PROVE ~Displaced
    BY <1>14 DEF Close, EvictAll, Free
<1>15. ASSUME UNCHANGED vars PROVE ~Displaced
    BY <1>15
<1> QED
    BY <1>1, <1>2, <1>3, <1>4, <1>5, <1>6, <1>7, <1>8, <1>9, <1>10, <1>11,
       <1>12, <1>13, <1>14, <1>15, NextCases

(* Two callers that use a name share one session until the name is         *)
(* registered again, dropped or closed.                                    *)
THEOREM CacheIsStable == Spec => CachedSessionNeverDisplaced
<1>1. IInv /\ [Next]_vars => ~Displaced
    BY NeverDisplaced DEF IInv, Coherent
<1>2. ~Displaced =>
          \A n \in Names :
              cache[n] # NoSession /\ cache'[n] # cache[n]
                  => cache'[n] = NoSession \/ configs'[n] = Precreated
    BY DEF Displaced
<1> QED
    BY <1>1, <1>2, RegistryInvariant, PTL DEF Spec, CachedSessionNeverDisplaced

-----------------------------------------------------------------------------
(***************************************************************************)
(* The registry implements RegistryContract.  Get is two steps in the code *)
(* (the mutex is taken, the factory runs, the mutex is released); the      *)
(* contract sees the last of them only.  That a new session has the        *)
(* configuration current at that step, and that the name has no other, is  *)
(* FactoryServesCurrentConfig; that the caller is given it, HoldsASession. *)
(***************************************************************************)
HoldsASession ==
    \A c \in Callers : pc[c] = "using" <=> call[c].session # NoSession

RefinementInv == Typed /\ FactoryServesCurrentConfig /\ HoldsASession

(* What a factory makes of the entry it was given is a session.            *)
LEMMA SessionOfEntry ==
    ASSUME Typed, NEW c \in Callers, pc[c] = "factory"
    PROVE  [id |-> made + 1, from |-> call[c].entry] # NoSession
<1>1. call[c].entry \in Config
    BY DEF Typed, TypeOK, FactoryHasEntry, Call
<1> QED
    BY <1>1, SessionAssumption DEF Typed, TypeOK, Session

(* A caller holds a session while it uses one, and at no other time.       *)
LEMMA HoldsPreserved ==
    ASSUME Typed, HoldsASession, [Next]_vars
    PROVE  HoldsASession'
<1> USE SessionAssumption DEF Typed, TypeOK, Session, Idle, HoldsASession
<1>1. ASSUME NEW file \in Files, NewServer(file) PROVE HoldsASession'
    BY <1>1 DEF NewServer
<1>2. ASSUME NEW file \in Files, NewServerWithDefault(file) PROVE HoldsASession'
    BY <1>2 DEF NewServerWithDefault
<1>3. ASSUME NewServerFails PROVE HoldsASession'
    BY <1>3 DEF NewServerFails
<1>4. ASSUME NEW c \in Callers, NEW n \in Names, BeginGet(c, n)
      PROVE  HoldsASession'
    BY <1>4 DEF BeginGet
<1>5. ASSUME NEW c \in Callers, NEW n \in Names, NEW e \in Entries,
             Register(c, n, e) PROVE HoldsASession'
    BY <1>5 DEF Register
<1>6. ASSUME NEW c \in Callers, GetHit(c) PROVE HoldsASession'
    BY <1>6 DEF GetHit
<1>7. ASSUME NEW c \in Callers, GetUnknown(c) PROVE HoldsASession'
    BY <1>7 DEF GetUnknown
<1>8. ASSUME NEW c \in Callers, GetMiss(c) PROVE HoldsASession'
    BY <1>8 DEF GetMiss
<1>9. ASSUME NEW c \in Callers, FactoryOk(c) PROVE HoldsASession'
    <2>1. [id |-> made + 1, from |-> call[c].entry] # NoSession
        BY <1>9, SessionOfEntry DEF FactoryOk
    <2> QED
        BY <1>9, <2>1 DEF FactoryOk
<1>10. ASSUME NEW c \in Callers, FactoryFail(c) PROVE HoldsASession'
    BY <1>10 DEF FactoryFail
<1>11. ASSUME NEW c \in Callers, Finish(c) PROVE HoldsASession'
    BY <1>11 DEF Finish
<1>12. ASSUME NEW n \in Names, SetPrecreated(n) PROVE HoldsASession'
    BY <1>12 DEF SetPrecreated
<1>13. ASSUME Clear PROVE HoldsASession'
    BY <1>13 DEF Clear
<1>14. ASSUME Close PROVE HoldsASession'
    BY <1>14 DEF Close
<1>15. ASSUME UNCHANGED vars PROVE HoldsASession'
    BY <1>15
<1> QED
    BY <1>1, <1>2, <1>3, <1>4, <1>5, <1>6, <1>7, <1>8, <1>9, <1>10, <1>11,
       <1>12, <1>13, <1>14, <1>15, NextCases

(* The start: no configuration, no session, nobody waits.                  *)
LEMMA InitRefines == Init => Contract!Init
BY DEF Init, Contract!Init, Running, Waiting, Idle

(* Every step of the registry is a step of the contract, or none.          *)
LEMMA StepRefines ==
    ASSUME RefinementInv, NothingBeforeServing, [Next]_vars
    PROVE  [Contract!Next]_(Contract!contractVars)
<1> DEFINE Goal == [Contract!Next]_(Contract!contractVars)
<1> USE DEF RefinementInv, Contract!contractVars, Contract!registry,
            Running, Waiting
<1>1. ASSUME NEW file \in Files, NewServer(file) PROVE Goal
    <2>1. LoadConfig(file) \in [Names -> Config \cup {NoEntry}]
        BY EntriesAssumption DEF LoadConfig, Files, Config
    <2>2. LoadConfig(file)[Default] \notin {NoEntry, Precreated}
        BY NamesAssumption, EntriesAssumption DEF LoadConfig, Files
    <2>3. Contract!Open(LoadConfig(file))
        BY <1>1, <2>2 DEF NewServer, Contract!Open
    <2> QED
        BY <2>1, <2>3 DEF Contract!Next
<1>2. ASSUME NEW file \in Files, NewServerWithDefault(file) PROVE Goal
    <2> DEFINE first == [LoadConfig(file) EXCEPT ![Default] = Precreated]
    <2>1. first \in [Names -> Config \cup {NoEntry}]
        BY EntriesAssumption DEF LoadConfig, Files, Config
    <2>2. first[Default] = Precreated
        BY NamesAssumption DEF LoadConfig
    <2>3. Contract!OpenWith(first)
        BY <1>2, <2>2
           DEF NewServerWithDefault, Contract!OpenWith, Contract!Fresh
    <2> HIDE DEF first
    <2> QED
        BY <2>1, <2>3 DEF Contract!Next
<1>3. ASSUME NewServerFails PROVE Goal
    BY <1>3 DEF NewServerFails
<1>4. ASSUME NEW c \in Callers, NEW n \in Names, BeginGet(c, n) PROVE Goal
    <2>1. Contract!Ask(c, n)
        BY <1>4 DEF BeginGet, Contract!Ask, HoldsASession, Typed, TypeOK, Idle
    <2> QED
        BY <2>1 DEF Contract!Next
<1>5. ASSUME NEW c \in Callers, NEW n \in Names, NEW e \in Entries,
             Register(c, n, e) PROVE Goal
    <2>1. Contract!Configure(c, n, e)
        BY <1>5 DEF Register, Evict, Contract!Configure, HoldsASession,
                    Typed, TypeOK, Idle
    <2>2. e \in Config \ {Precreated}
        BY EntriesAssumption DEF Config
    <2> QED
        BY <2>1, <2>2 DEF Contract!Next
<1>6. ASSUME NEW c \in Callers, GetHit(c) PROVE Goal
    <2>1. PICK n \in Names : n = call[c].name
        BY DEF Typed, TypeOK, Call
    <2>2. \A d \in Callers :
              /\ Waiting(d)' = (d # c /\ Waiting(d))
              /\ call'[d].name = call[d].name
              /\ call'[d].session = IF d = c THEN cache[n] ELSE call[d].session
        BY <1>6, <2>1 DEF GetHit, Typed, TypeOK, Call
    <2>3. /\ n \in (IF Waiting(c) THEN {call[c].name} ELSE {})
          /\ cache[n] # NoSession
          /\ UNCHANGED <<Running, configs, cache, made>>
        BY <1>6, <2>1 DEF GetHit, Waiting, Running
    <2>4. Contract!Share(c, n)
        BY <2>1, <2>2, <2>3 DEF Contract!Share, Contract!registry
    <2> QED
        BY <2>1, <2>4 DEF Contract!Next
<1>7. ASSUME NEW c \in Callers, GetUnknown(c) PROVE Goal
    <2>1. PICK n \in Names : n = call[c].name
        BY DEF Typed, TypeOK, Call
    <2>2. Contract!Refuse(c, n)
        BY <1>7, <2>1 DEF GetUnknown, Contract!Refuse, HoldsASession, Typed, TypeOK,
                    Idle
    <2> QED
        BY <2>1, <2>2 DEF Contract!Next
<1>8. ASSUME NEW c \in Callers, GetMiss(c) PROVE Goal
    <2>1. \A d \in Callers :
              /\ Waiting(d)' = Waiting(d)
              /\ call'[d].name = call[d].name
              /\ call'[d].session = call[d].session
        BY <1>8 DEF GetMiss, Typed, TypeOK, Call
    <2> QED
        BY <1>8, <2>1, ZenonT(60) DEF GetMiss
<1>9. ASSUME NEW c \in Callers, FactoryOk(c) PROVE Goal
    <2>1. PICK n \in Names : n = call[c].name
        BY DEF Typed, TypeOK, Call
    <2>2. /\ call[c].entry = configs[n]
          /\ cache[n] = NoSession
          /\ configs[n] # NoEntry
        BY <1>9, <2>1 DEF FactoryOk, FactoryServesCurrentConfig, Typed,
                    FactoryHasEntry
    <2>3. \A d \in Callers :
              /\ Waiting(d)' = (d # c /\ Waiting(d))
              /\ call'[d].name = call[d].name
              /\ call'[d].session = IF d = c THEN Contract!Fresh(configs[n])
                                             ELSE call[d].session
        BY <1>9, <2>2 DEF FactoryOk, Contract!Fresh, Typed, TypeOK, Call
    <2>4. Contract!Make(c, n)
        BY <1>9, <2>1, <2>2, <2>3 DEF FactoryOk, Contract!Make, Contract!Fresh
    <2> QED
        BY <2>1, <2>4 DEF Contract!Next
<1>10. ASSUME NEW c \in Callers, FactoryFail(c) PROVE Goal
    <2>1. PICK n \in Names : n = call[c].name
        BY DEF Typed, TypeOK, Call
    <2>2. cache[n] = NoSession
        BY <1>10, <2>1 DEF FactoryFail, FactoryServesCurrentConfig
    <2>3. Contract!Refuse(c, n)
        BY <1>10, <2>1, <2>2 DEF FactoryFail, Contract!Refuse, HoldsASession, Typed,
                           TypeOK, Idle
    <2> QED
        BY <2>1, <2>3 DEF Contract!Next
<1>11. ASSUME NEW c \in Callers, Finish(c) PROVE Goal
    <2>1. Contract!Leave(c)
        BY <1>11 DEF Finish, Contract!Leave, HoldsASession, Typed, TypeOK, Idle
    <2> QED
        BY <2>1 DEF Contract!Next
<1>12. ASSUME NEW n \in Names, SetPrecreated(n) PROVE Goal
    <2>1. Contract!Put(n)
        BY <1>12 DEF SetPrecreated, Contract!Put, Contract!Fresh
    <2> QED
        BY <2>1 DEF Contract!Next
<1>13. ASSUME Clear PROVE Goal
    <2>1. Contract!Drop
        BY <1>13 DEF Clear, EvictAll, Contract!Drop
    <2> QED
        BY <2>1 DEF Contract!Next
<1>14. ASSUME Close PROVE Goal
    <2>1. Contract!Drop
        BY <1>14 DEF Close, EvictAll, Contract!Drop
    <2> QED
        BY <2>1 DEF Contract!Next
<1>15. ASSUME UNCHANGED vars PROVE Goal
    BY <1>15
<1> QED
    BY <1>1, <1>2, <1>3, <1>4, <1>5, <1>6, <1>7, <1>8, <1>9, <1>10, <1>11,
       <1>12, <1>13, <1>14, <1>15, NextCases

(* The registry with its mutex and slow factories behaves like one whose   *)
(* every Get is a single step, for any callers, names and configurations.  *)
THEOREM RegistryImplementsContract == Spec => ImplementsContract
<1>1. Init => Typed /\ HoldsASession
    BY InitTyped, SessionAssumption DEF Init, HoldsASession, Idle
<1>2. Typed /\ HoldsASession /\ [Next]_vars => (Typed /\ HoldsASession)'
    BY TypedPreserved, HoldsPreserved
<1>3. Spec => [](Typed /\ HoldsASession)
    BY <1>1, <1>2, PTL DEF Spec
<1>4. IInv /\ Typed /\ HoldsASession /\ [Next]_vars
          => [Contract!Next]_(Contract!contractVars)
    BY StepRefines DEF IInv, RefinementInv
<1> QED
    BY <1>3, <1>4, RegistryInvariant, InitRefines, PTL
    DEF Spec, ImplementsContract, Contract!Spec
=============================================================================
