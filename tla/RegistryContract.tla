-------------------------- MODULE RegistryContract --------------------------
(***************************************************************************)
(* What the session registry promises to the tool calls: it behaves as if  *)
(* it had no mutex and no factory that takes time.  A caller that asks for *)
(* a name is answered in one step, from the cache if the name has a live   *)
(* session, else with a fresh session of the configuration the name has at *)
(* that moment, which all later callers share, else with an error.  Nothing*)
(* is promised between the two halves of Register: the configuration may   *)
(* have been replaced when its own request is answered.                    *)
(***************************************************************************)
EXTENDS Naturals

CONSTANTS Callers, Names, Default, Config, Precreated, NoEntry, NoSession

VARIABLES
    open,       \* the server is up
    configs,    \* the configuration of each name
    cache,      \* the live session of each name
    made,       \* sessions made so far
    asked,      \* the name each caller waits for: {} or {n}
    given       \* the session each caller works with

registry == <<configs, cache, made>>
contractVars == <<open, registry, asked, given>>

Fresh(entry) == [id |-> made + 1, from |-> entry]

Init ==
    /\ open = FALSE
    /\ configs = [n \in Names |-> NoEntry]
    /\ cache = [n \in Names |-> NoSession]
    /\ made = 0
    /\ asked = [c \in Callers |-> {}]
    /\ given = [c \in Callers |-> NoSession]

(* The server comes up with a configuration for the name "default".         *)
Open(first) ==
    /\ ~open
    /\ first[Default] \notin {NoEntry, Precreated}
    /\ open' = TRUE
    /\ configs' = first
    /\ UNCHANGED <<cache, made, asked, given>>

(* It comes up with a session of the program's own under that name.         *)
OpenWith(first) ==
    /\ ~open
    /\ first[Default] = Precreated
    /\ open' = TRUE
    /\ configs' = first
    /\ cache' = [cache EXCEPT ![Default] = Fresh(Precreated)]
    /\ made' = made + 1
    /\ UNCHANGED <<asked, given>>

(* A caller starts to wait.                                                 *)
Ask(c, n) ==
    /\ open
    /\ asked[c] = {} /\ given[c] = NoSession
    /\ asked' = [asked EXCEPT ![c] = {n}]
    /\ UNCHANGED <<open, registry, given>>

(* A caller configures a name, drops its session and waits for a new one.   *)
Configure(c, n, e) ==
    /\ open
    /\ asked[c] = {} /\ given[c] = NoSession
    /\ configs' = [configs EXCEPT ![n] = e]
    /\ cache' = [cache EXCEPT ![n] = NoSession]
    /\ asked' = [asked EXCEPT ![c] = {n}]
    /\ UNCHANGED <<open, made, given>>

(* The three answers: the live session, a new one, an error.                *)
Share(c, n) ==
    /\ n \in asked[c]
    /\ cache[n] # NoSession
    /\ asked' = [asked EXCEPT ![c] = {}]
    /\ given' = [given EXCEPT ![c] = cache[n]]
    /\ UNCHANGED <<open, registry>>

Make(c, n) ==
    /\ n \in asked[c]
    /\ cache[n] = NoSession
    /\ configs[n] # NoEntry
    /\ cache' = [cache EXCEPT ![n] = Fresh(configs[n])]
    /\ made' = made + 1
    /\ asked' = [asked EXCEPT ![c] = {}]
    /\ given' = [given EXCEPT ![c] = Fresh(configs[n])]
    /\ UNCHANGED <<open, configs>>

Refuse(c, n) ==
    /\ n \in asked[c]
    /\ cache[n] = NoSession
    /\ asked' = [asked EXCEPT ![c] = {}]
    /\ UNCHANGED <<open, registry, given>>

(* A caller has done its work.                                              *)
Leave(c) ==
    /\ given[c] # NoSession
    /\ given' = [given EXCEPT ![c] = NoSession]
    /\ UNCHANGED <<open, registry, asked>>

(* The program puts a session of its own under a name.                      *)
Put(n) ==
    /\ open
    /\ configs' = [configs EXCEPT ![n] = Precreated]
    /\ cache' = [cache EXCEPT ![n] = Fresh(Precreated)]
    /\ made' = made + 1
    /\ UNCHANGED <<open, asked, given>>

(* Every live session is dropped, and every configuration or none.          *)
Drop ==
    /\ open
    /\ cache' = [n \in Names |-> NoSession]
    /\ configs' \in {configs, [n \in Names |-> NoEntry]}
    /\ UNCHANGED <<open, made, asked, given>>

Next ==
    \/ \E first \in [Names -> Config \cup {NoEntry}] :
          Open(first) \/ OpenWith(first)
    \/ \E c \in Callers, n \in Names :
          \/ Ask(c, n)
          \/ \E e \in Config \ {Precreated} : Configure(c, n, e)
          \/ Share(c, n) \/ Make(c, n) \/ Refuse(c, n)
    \/ \E c \in Callers : Leave(c)
    \/ \E n \in Names : Put(n)
    \/ Drop

Spec == Init /\ [][Next]_contractVars
=============================================================================
