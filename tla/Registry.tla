------------------------------ MODULE Registry ------------------------------
(* The governed registry (spikeforge_hub/registry_store.py): one JSON document *)
(* that every command reads, changes in memory and writes back in place,       *)
(* without a lock.  An entry is an id at one of the stages dev, staging and    *)
(* prod; a promotion (registry_promotion.py, registry_cli.py) adds the id at   *)
(* the next stage, signed, and keeps the entry it was promoted from.           *)
EXTENDS Naturals

CONSTANTS
    Admins,        \* processes that run the commands
    Models,           \* the governed models
    Active,        \* those whose status is "active"
    Compatible,    \* those with an exact or mappable verdict
    Registered,    \* the entries library callers add, at any stage
    MaxKills       \* processes killed between two steps

ASSUME RegistryAssumption ==
    Active \subseteq Models /\ Compatible \subseteq Models /\ MaxKills \in Nat

Dev == 0
Prod == 2
Levels == Dev..Prod
Entries == [id : Models, stage : Levels]

ASSUME RegisteredAssumption == Registered \subseteq Entries

VARIABLES
    document,    \* the file: whether it parses, and the entries it holds
    admin,       \* what each process is about to write, and how far it is
    promised,    \* the entries whose command reported success
    crossed,     \* two commands were between their load and their save at once
    kills

registryVars == <<document, admin, promised, crossed, kills>>

Work == [pc : {"away", "open", "write"}, updated : SUBSET Entries,
         entry : [id : Models \cup {""}, stage : Levels]]
Away == [pc |-> "away", updated |-> {}, entry |-> [id |-> "", stage |-> Dev]]

RegistryInit ==
    /\ document = [whole |-> TRUE, entries |-> {}]   \* no file is an empty registry
    /\ admin = [a \in Admins |-> Away]
    /\ promised = {}
    /\ crossed = FALSE
    /\ kills = 0

\* Registry.get(): the entry of the id at its furthest stage.
Furthest(entries, e) ==
    e \in entries /\ \A f \in entries : f.id = e.id => f.stage <= e.stage

\* Mutant: the entry takes the place of all entries of its id.
AddOnlyNewest(entries, e) == {f \in entries : f.id # e.id} \cup {e}

\* Registry.add(): replaces what the document has for this id and stage.
Add(entries, e) == entries \cup {e}

\* Mutant: a promotion may skip a stage.
MayPromoteFurther(from, to) ==
    /\ to > from.stage /\ to <= Prod
    /\ from.id \in Active
    /\ to = Prod => from.id \in Compatible

\* _validate_promotion(): the next stage only, of an active entry, and to prod
\* only with a verdict.  (The artifact's checksum may refuse it as well.)
MayPromote(from, to) ==
    /\ to = from.stage + 1 /\ to <= Prod
    /\ from.id \in Active
    /\ to = Prod => from.id \in Compatible

\* The command has loaded the document and made the new one in memory.
Prepares(a, e) ==
    /\ admin[a].pc = "away" /\ document.whole
    /\ admin' = [admin EXCEPT ![a] = [pc |-> "open", entry |-> e,
                                      updated |-> Add(document.entries, e)]]
    /\ crossed' = (crossed \/ \E b \in Admins \ {a} : admin[b].pc # "away")
    /\ UNCHANGED <<document, promised, kills>>

\* A library caller adds an entry, which need not be at dev.
Register(a, e) == Prepares(a, e)

\* spikeforge-registry promote <id> --to <stage>
Promote(a, id, to) ==
    /\ \E from \in Entries : /\ from.id = id /\ Furthest(document.entries, from)
                             /\ MayPromote(from, to)
    /\ Prepares(a, [id |-> id, stage |-> to])

\* save(): open(path, "w") empties the document ...
Truncate(a) ==
    /\ admin[a].pc = "open"
    /\ document' = [whole |-> FALSE, entries |-> {}]
    /\ admin' = [admin EXCEPT ![a].pc = "write"]
    /\ UNCHANGED <<promised, crossed, kills>>

\* ... and the new text goes over what another process wrote since then: where
\* that was another text its end may be left over.
Write(a) ==
    /\ admin[a].pc = "write"
    /\ \/ document' = [whole |-> TRUE, entries |-> admin[a].updated]
       \/ /\ document.whole /\ document.entries # admin[a].updated
          /\ document' = [whole |-> FALSE, entries |-> {}]
    /\ promised' = promised \cup {admin[a].entry}
    /\ admin' = [admin EXCEPT ![a] = Away]
    /\ UNCHANGED <<crossed, kills>>

Killed(a) ==
    /\ admin[a].pc # "away" /\ kills < MaxKills
    /\ kills' = kills + 1
    /\ admin' = [admin EXCEPT ![a] = Away]
    /\ UNCHANGED <<document, promised, crossed>>

RegistryNext ==
    \E a \in Admins :
        \/ \E e \in Registered : Register(a, e)
        \/ \E id \in Models, to \in Levels : Promote(a, id, to)
        \/ Truncate(a) \/ Write(a) \/ Killed(a)

RegistrySpec == RegistryInit /\ [][RegistryNext]_registryVars

-----------------------------------------------------------------------------
RegistryTypeOK ==
    /\ document \in [whole : BOOLEAN, entries : SUBSET Entries]
    /\ admin \in [Admins -> Work]
    /\ crossed \in BOOLEAN
    /\ promised \subseteq Entries
    /\ kills \in 0..MaxKills

\* A document in which every entry but the registered ones has earned its stage:
\* it has come from the stage below, while active, and to prod with a verdict.
Earned(entries) ==
    \A e \in entries \ Registered :
        /\ [id |-> e.id, stage |-> e.stage - 1] \in entries
        /\ e.id \in Active
        /\ e.stage = Prod => e.id \in Compatible

\* No interleaving of commands, lost update or crash leaves an entry at a stage
\* that it has not earned.
StagesAreEarned == Earned(document.entries)

\* A promotion that was reported stays in the document, and the document stays
\* readable, unless two commands crossed or one was killed while writing.
PromotionSurvives ==
    ~crossed =>
        \/ document.whole /\ promised \subseteq document.entries
        \/ ~document.whole /\ (kills > 0 \/ \E a \in Admins : admin[a].pc = "write")
=============================================================================
