--------------------------- MODULE ThermalPolicy ---------------------------
(***************************************************************************)
(* Thermal policies (utility_thermal.cpp, the path of mtk_thermal_2_0).    *)
(*                                                                         *)
(* Locks on PERF_RES_THERMAL_POLICY start and stop policies; the policy    *)
(* with the highest id of those started is the one the thermal core should *)
(* apply.  The reference counts are kept in a list and saved, encoded, in  *)
(* a row of system properties of ITEM_MAX items each, so that they outlive *)
(* a crash of the HAL.  The core is told over a socket: connecting may     *)
(* fail, and a command may be lost after a connection was made.            *)
(*                                                                         *)
(* Every call runs under sMutex.  It is one step up to save_policy_prop,   *)
(* one step for each property that it sets, and one step that tells the    *)
(* core; the process may be killed before any of them.                     *)
(***************************************************************************)
EXTENDS Integers, Sequences, FiniteSets, SequencesExt

CONSTANTS
  Policy,     \* the policy ids that locks ask for
  PROP_NUM,   \* POLICY_PROP_MAX_NUM, how many properties there are
  ITEM_MAX,   \* POLICY_PROP_ITEM_MAX, items in one of them
  REF_MAX     \* the largest reference count, 999

ASSUME ThermalAssumption ==
  /\ Policy \subseteq 0..999
  /\ PROP_NUM \in Nat \ {0} /\ ITEM_MAX \in Nat \ {0}
  /\ REF_MAX \in 1..999

DefaultPolicy == -1   \* thermal.conf
NotYet == -2          \* active_policy before the first command
NoItems == <<>>       \* a property that is missing or holds no items

VARIABLES
  policy_list,    \* policy_status.list, the newest item first
  max_id,         \* policy_status.max_id
  active_policy,  \* policy_status.active_policy
  prop,           \* the properties, each a sequence of encoded items
  step,           \* of the call that holds sMutex: "idle", "save" or "apply"
  at,             \* in step "save": the property to be set next
  core,           \* the policy that the thermal core applies
  held,           \* locks that are on, per policy
  odd,            \* history: policies that were refused, or saved by a HAL that died
  lost            \* history: the core lost the last command or restarted after it

tVars == <<policy_list, max_id, active_policy, prop, step, at, core, held, odd, lost>>

Ids(l) == {l[i].id : i \in DOMAIN l}
get_policy_refcnt(l, id) ==
  IF id \in Ids(l) THEN l[CHOOSE i \in DOMAIN l : l[i].id = id].refcnt ELSE 0

\* Mutant: the item being removed still counts.
get_next_policy_Head(l) == IF l = <<>> THEN DefaultPolicy ELSE Head(l).id

\* The highest id in the list.
get_next_policy(l) ==
  IF l = <<>> THEN DefaultPolicy
  ELSE CHOOSE id \in Ids(l) : \A other \in Ids(l) : other <= id

\* update_policy_list, with add_policy_list and remove_policy_list, on a record
\* of the list and max_id.
update_policy_list(s, id, refcnt) ==
  IF id \notin Ids(s.list)
  THEN [list |-> <<[id |-> id, refcnt |-> refcnt]>> \o s.list,
        max_id |-> IF s.max_id < id THEN id ELSE s.max_id]
  ELSE LET i == CHOOSE i \in DOMAIN s.list : s.list[i].id = id IN
       IF refcnt = 0
       THEN [list |-> RemoveAt(s.list, i),
             max_id |-> IF s.max_id = id THEN get_next_policy(RemoveAt(s.list, i))
                                         ELSE s.max_id]
       ELSE [s EXCEPT !.list[i].refcnt = refcnt]

\* Mutant: a number is written with four of its five low bits.
Chars_FourBits(n) == <<n \div 32 + 48, (n % 16) + 48>>

\* The two characters that encode_policy_prop writes for a number.
Chars(n) == <<n \div 32 + 48, (n % 32) + 48>>

\* An item as encode_policy_prop writes it, and as it is read back.
encode_policy_prop(item) == Chars(item.id) \o Chars(item.refcnt)
decode_policy_prop(c) == [id |-> (c[1] - 48) * 32 + c[2] - 48,
                          refcnt |-> (c[3] - 48) * 32 + c[4] - 48]

\* The items that load_policy_prop reads in properties p: from the k-th on, it
\* stops at one that is missing, empty or not full.
ItemsIn(p) ==
  LET from[k \in 1 .. PROP_NUM + 1] ==
        IF k > PROP_NUM THEN <<>>
        ELSE IF p[k] = NoItems THEN <<>>
        ELSE p[k] \o (IF Len(p[k]) < ITEM_MAX THEN <<>> ELSE from[k + 1])
  IN  from[1]

\* The list that the items make, one after the other.
LoadItem(s, c) == update_policy_list(s, decode_policy_prop(c).id, decode_policy_prop(c).refcnt)
LoadItems(items) ==
  LET upTo[i \in 0 .. Len(items)] ==
        IF i = 0 THEN [list |-> <<>>, max_id |-> DefaultPolicy] ELSE LoadItem(upTo[i - 1], items[i])
  IN  upTo[Len(items)]
Loaded == LoadItems(ItemsIn(prop))

\* load_policy_prop, called first of all: does nothing unless the list is empty.
load_policy_prop == IF policy_list # <<>> THEN [list |-> policy_list, max_id |-> max_id] ELSE Loaded

TInit ==
  /\ policy_list = <<>> /\ max_id = DefaultPolicy /\ active_policy = NotYet
  /\ prop = [k \in 1..PROP_NUM |-> NoItems]
  /\ step = "idle" /\ at = 1
  /\ core = DefaultPolicy
  /\ held = [id \in Policy |-> 0]
  /\ odd = {} /\ lost = FALSE

\* The call goes on to save the list.
Save(s) == /\ policy_list' = s.list /\ max_id' = s.max_id
           /\ step' = "save" /\ at' = 1

\* load_thm_api_start.  REF_MAX also bounds the number of locks.
load_thm_api_start(id) ==
  LET s == load_policy_prop
      refcnt == get_policy_refcnt(s.list, id)
  IN
  /\ step = "idle" /\ held[id] < REF_MAX
  /\ held' = [held EXCEPT ![id] = @ + 1]
  /\ \/ /\ refcnt = REF_MAX \/ (Len(s.list) >= PROP_NUM * ITEM_MAX /\ refcnt = 0)
        /\ policy_list' = s.list /\ max_id' = s.max_id
        /\ odd' = odd \cup {id}
        /\ UNCHANGED <<step, at>>
     \/ /\ refcnt < REF_MAX /\ (Len(s.list) < PROP_NUM * ITEM_MAX \/ refcnt > 0)
        /\ Save(update_policy_list(s, id, refcnt + 1))
        /\ UNCHANGED odd
  /\ UNCHANGED <<active_policy, prop, core, lost>>

\* load_thm_api_stop: "shouldn't be 0" is an error that changes nothing.
load_thm_api_stop(id) ==
  LET s == load_policy_prop
      refcnt == get_policy_refcnt(s.list, id)
  IN
  /\ step = "idle" /\ held[id] > 0
  /\ held' = [held EXCEPT ![id] = @ - 1]
  /\ \/ /\ refcnt = 0
        /\ policy_list' = s.list /\ max_id' = s.max_id
        /\ UNCHANGED <<step, at>>
     \/ refcnt > 0 /\ Save(update_policy_list(s, id, refcnt - 1))
  /\ UNCHANGED <<active_policy, prop, core, odd, lost>>

Smaller(a, b) == IF a < b THEN a ELSE b

\* One turn of the loop of save_policy_prop.
save_policy_prop ==
  LET items == SubSeq(policy_list, (at - 1) * ITEM_MAX + 1, Smaller(at * ITEM_MAX, Len(policy_list))) IN
  /\ step = "save"
  /\ prop' = [prop EXCEPT ![at] = [i \in DOMAIN items |-> encode_policy_prop(items[i])]]
  /\ IF at * ITEM_MAX >= Len(policy_list) \/ at = PROP_NUM
     THEN step' = "apply" /\ at' = 1
     ELSE step' = "save" /\ at' = at + 1
  /\ UNCHANGED <<policy_list, max_id, active_policy, core, held, odd, lost>>

\* Mutant: the policy counts as active whether or not the core was reached.
change_policy_Always ==
  /\ step = "apply" /\ step' = "idle"
  /\ \/ /\ max_id = active_policy
        /\ UNCHANGED <<active_policy, core, lost>>
     \/ /\ max_id # active_policy
        /\ active_policy' = max_id
        /\ core' \in {max_id, core}
        /\ UNCHANGED lost
  /\ UNCHANGED <<policy_list, max_id, prop, at, held, odd>>

\* The end of load_thm_api: change_policy_by_socket unless there is no change.
\* A failed connection leaves active_policy; a failed send does not.
change_policy ==
  /\ step = "apply" /\ step' = "idle"
  /\ \/ /\ max_id = active_policy
        /\ UNCHANGED <<active_policy, core, lost>>
     \/ /\ max_id # active_policy           \* the core gets the command
        /\ active_policy' = max_id /\ core' = max_id
        /\ lost' = FALSE
     \/ /\ max_id # active_policy           \* connect fails
        /\ UNCHANGED <<active_policy, core, lost>>
     \/ /\ max_id # active_policy           \* send fails
        /\ active_policy' = max_id /\ lost' = TRUE
        /\ UNCHANGED core
  /\ UNCHANGED <<policy_list, max_id, prop, at, held, odd>>

\* The HAL is killed, with all locks, and restarts: reset_thermal_policy clears
\* the status; the first call will load the properties.
reset_thermal_policy ==
  /\ policy_list' = <<>> /\ max_id' = DefaultPolicy /\ active_policy' = NotYet
  /\ held' = [id \in Policy |-> 0]
  /\ step' = "idle" /\ at' = 1
  /\ odd' = odd \cup UNION {{decode_policy_prop(c).id : c \in Range(prop[k])} : k \in DOMAIN prop}
  /\ UNCHANGED <<prop, core, lost>>

\* The thermal core restarts with its default policy.  The HAL is not told.
CoreRestart ==
  /\ core # DefaultPolicy
  /\ core' = DefaultPolicy /\ lost' = TRUE
  /\ UNCHANGED <<policy_list, max_id, active_policy, prop, step, at, held, odd>>

TNext ==
  \/ \E id \in Policy : load_thm_api_start(id) \/ load_thm_api_stop(id)
  \/ save_policy_prop
  \/ change_policy
  \/ reset_thermal_policy
  \/ CoreRestart

TSpec == TInit /\ [][TNext]_tVars
-----------------------------------------------------------------------------
\* The list has each policy once, with a count that encode_policy_prop can write,
\* and fits the properties.
ThermalTypeOK ==
  /\ \A i \in DOMAIN policy_list : policy_list[i].id \in Policy /\ policy_list[i].refcnt \in 1..REF_MAX
  /\ Len(policy_list) <= PROP_NUM * ITEM_MAX
  /\ Cardinality(Ids(policy_list)) = Len(policy_list)
  /\ {max_id, active_policy, core} \subseteq Policy \cup {DefaultPolicy, NotYet}
  /\ step \in {"idle", "save", "apply"} /\ at \in 1..PROP_NUM
  /\ held \in [Policy -> 0..REF_MAX] /\ odd \subseteq Policy /\ lost \in BOOLEAN

\* A policy is counted once for each lock that started it, however starts and
\* stops of several policies are mixed, and the highest one counted is max_id.
\* Not so for a policy that was refused a place, or that was in the properties
\* when the HAL died: its locks are gone and its count stays until a reboot.
PolicyCounted ==
  /\ \A id \in Policy \ odd : get_policy_refcnt(policy_list, id) = held[id]
  /\ policy_list # <<>> => max_id = get_next_policy(policy_list)

\* Between calls, a HAL that restarted would read back the counts that this one
\* has, although only the leading properties are rewritten: the reader stops at
\* the first property that is not full.  When the items fill the properties
\* exactly, it goes on to a stale one.
RestartReadsBack ==
  (step # "save" /\ policy_list # <<>>) =>
    \/ {Loaded.list[i] : i \in DOMAIN Loaded.list} = {policy_list[i] : i \in DOMAIN policy_list}
    \/ \E k \in 1 .. PROP_NUM - 1 : Len(policy_list) = k * ITEM_MAX /\ prop[k + 1] # NoItems

\* The HAL never believes that a policy is applied when the core applies another,
\* unless the core lost the last command after a connection was made, or restarted.
ActiveIsApplied == lost \/ active_policy \in {NotYet, core}
=============================================================================
