-------------------------------- MODULE Netd --------------------------------
(***************************************************************************)
(* Network boost (utility_netd.cpp and the SETSYS_NETD cases of            *)
(* perfSetSysInfo): which applications and which connections the netd      *)
(* agent gives priority.  The agent keeps the rules; the HAL keeps tables  *)
(* of what it asked for, to withdraw it later.  Two parts that share no    *)
(* state: rules by uid, in two VIP channels, and rules by link; each has   *)
(* its half of netd_reset.                                                 *)
(*                                                                         *)
(* A command to the agent may be carried out ("done"), may fail and be     *)
(* reported ("failed"), or may fail inside the AIDL service, which         *)
(* finishedWithAidl reports as a success ("lost").                         *)
(***************************************************************************)
EXTENDS Integers, FiniteSets

CONSTANTS
  Uid,         \* uids of applications
  UID_COUNT,   \* MAX_NETD_BOOST_UID_COUNT
  Link,        \* connections (5-tuples)
  FILTER_COUNT,\* MAX_NETD_IP_FILTER_COUNT
  Outcome,     \* what may become of a command
  MaxLocks,    \* bound: locks that ask a channel for the same value
  NoLink       \* an empty entry of pIpFilterTbl

ASSUME NetdAssumption ==
  /\ Uid \subseteq Nat \ {0, 1, 2}
  /\ UID_COUNT \in Nat \ {0} /\ FILTER_COUNT \in Nat \ {0}
  /\ Outcome \subseteq {"done", "failed", "lost"}
  /\ MaxLocks \in Nat
  /\ NoLink \notin Link

NoUid == -1
FOREGROUND == 1  \* the value of a lock that boosts the foreground application
ALWAYS == 2      \* ... that boosts it from now on
Entry == 1..UID_COUNT
FilterEntry == 0 .. FILTER_COUNT - 1

VARIABLES
  channel,       \* the VIP channel looked at: they share no rule and no table
  fgUid,         \* foreground_app_info.uid
  boostEnabled,  \* property PERF_RES_NET_NETD_BOOST_UID
  boostUidTbl,   \* boostUidTbl, or boostUidTblx[1]: uids boosted for good
  lastFgBoost,   \* lastFgBoostPid, or lastFgBoostUidx[1]
  boosts,        \* locks that are on, per value
  uidRules,      \* the agent's rules by uid
  strayUids,     \* history: uids the HAL lost track of
  pIpFilterTbl,  \* the links the HAL asked for
  nIpFilterCurIdx,
  linkRules,     \* the agent's rules by link
  strayLinks     \* history: links the HAL lost track of

uidVars == <<channel, fgUid, boostEnabled, boostUidTbl, lastFgBoost, boosts, uidRules, strayUids>>
linkVars == <<pIpFilterTbl, nIpFilterCurIdx, linkRules, strayLinks>>

Value == Uid \cup {FOREGROUND, ALWAYS}
AnyUid == Uid \cup {NoUid, 1}

UidInit ==
  /\ channel \in {1, 2}
  /\ fgUid = NoUid /\ boostEnabled = TRUE
  /\ boostUidTbl = [e \in Entry |-> NoUid]
  /\ lastFgBoost = NoUid
  /\ boosts = [v \in Value |-> 0]
  /\ uidRules = {} /\ strayUids = {}

LinkInit ==
  /\ pIpFilterTbl = [e \in FilterEntry |-> NoLink]
  /\ nIpFilterCurIdx = 0
  /\ linkRules = {} /\ strayLinks = {}
-----------------------------------------------------------------------------
(***************************************************************************)
(* Rules by uid.                                                           *)
(***************************************************************************)

\* The agent's rules after priority_set_uid or priority_clear_uid.  For channel 2,
\* booster_netd_config_by_uid turns uid -1 into priority_clear_uid_all.
booster_netd_config_by_uid(enable, uid) ==
  IF channel = 2 /\ uid = NoUid THEN {}
  ELSE IF enable THEN uidRules \cup {uid} ELSE uidRules \ {uid}

FirstEmpty == CHOOSE e \in Entry :
                boostUidTbl[e] = NoUid /\ \A d \in 1 .. e - 1 : boostUidTbl[d] # NoUid
InTable(uid) == \E e \in Entry : boostUidTbl[e] = uid
Full == \A e \in Entry : boostUidTbl[e] # NoUid

\* The function returns before it asks the agent.
NoCommand(v) ==
  \/ v = ALWAYS /\ (InTable(fgUid) \/ Full)
  \/ v = FOREGROUND /\ channel = 2 /\ lastFgBoost = fgUid

\* netd_set_priority_uid and netd_set_priority_uid_2, on behalf of a new lock.
\* A boost of the foreground application forgets the last one.
netd_set_priority_uid(v, o) ==
  LET uid == IF v \in {FOREGROUND, ALWAYS} THEN fgUid ELSE v
      send == ~NoCommand(v) /\ boostEnabled
      forgotten == IF v = FOREGROUND /\ lastFgBoost \notin {NoUid, fgUid}
                   THEN {lastFgBoost} ELSE {}
  IN
  /\ boosts[v] < MaxLocks
  /\ boosts' = [boosts EXCEPT ![v] = @ + 1]
  /\ lastFgBoost' = IF v = FOREGROUND /\ ~NoCommand(v) THEN fgUid ELSE lastFgBoost
  /\ uidRules' = IF send /\ o = "done" THEN booster_netd_config_by_uid(TRUE, uid)
                 ELSE uidRules
  /\ boostUidTbl' = IF v = ALWAYS /\ send /\ o # "failed"
                    THEN [boostUidTbl EXCEPT ![FirstEmpty] = uid] ELSE boostUidTbl
  /\ strayUids' = strayUids \cup forgotten \cup ({uid} \cap {NoUid})
  /\ UNCHANGED <<channel, fgUid, boostEnabled>>

\* Mutant: the application in the foreground now is cleared, not the boosted one.
netd_clear_priority_uid_Now(v, o) ==
  LET uid == IF v = FOREGROUND THEN fgUid ELSE v
      send == v # ALWAYS
  IN
  /\ boosts[v] > 0
  /\ boosts' = [boosts EXCEPT ![v] = @ - 1]
  /\ lastFgBoost' = IF v = FOREGROUND THEN NoUid ELSE lastFgBoost
  /\ uidRules' = IF send /\ o = "done" THEN booster_netd_config_by_uid(FALSE, uid)
                 ELSE uidRules
  /\ strayUids' = IF send /\ o # "done" THEN strayUids \cup {uid} ELSE strayUids
  /\ UNCHANGED <<channel, fgUid, boostEnabled, boostUidTbl>>

\* netd_clear_priority_uid and netd_clear_priority_uid_2, when a lock ends.  With
\* no boost of a foreground application on record, "uid 1" is cleared.
netd_clear_priority_uid(v, o) ==
  LET uid == IF v = FOREGROUND /\ lastFgBoost # NoUid THEN lastFgBoost ELSE v
      send == v # ALWAYS
  IN
  /\ boosts[v] > 0
  /\ boosts' = [boosts EXCEPT ![v] = @ - 1]
  /\ lastFgBoost' = IF v = FOREGROUND THEN NoUid ELSE lastFgBoost
  /\ uidRules' = IF send /\ o = "done" THEN booster_netd_config_by_uid(FALSE, uid)
                 ELSE uidRules
  /\ strayUids' = IF send /\ o # "done" THEN strayUids \cup {uid} ELSE strayUids
  /\ UNCHANGED <<channel, fgUid, boostEnabled, boostUidTbl>>

\* SETSYS_NETD_SET_BOOST_UID and SETSYS_NETD_STATUS.
SetForeground(uid) ==
  /\ fgUid' = uid
  /\ UNCHANGED <<channel, boostEnabled, boostUidTbl, lastFgBoost, boosts, uidRules, strayUids>>
SetNetdStatus ==
  /\ boostEnabled' = ~boostEnabled
  /\ UNCHANGED <<channel, fgUid, boostUidTbl, lastFgBoost, boosts, uidRules, strayUids>>

\* Requests of the Java service (UIDSET, UIDCLEAR, UIDCLEARALL, REMOVEALL) go to the
\* agent past the tables.
booster_netd_process_uid_request(act, uid) ==
  /\ uidRules' = CASE act = "UIDSET" -> booster_netd_config_by_uid(TRUE, uid)
                   [] act = "UIDCLEAR" -> booster_netd_config_by_uid(FALSE, uid)
                   [] OTHER -> {}
  /\ strayUids' = IF act = "UIDSET" THEN strayUids \cup {uid} ELSE strayUids
  /\ UNCHANGED <<channel, fgUid, boostEnabled, boostUidTbl, lastFgBoost, boosts>>

\* The HAL restarts, with no locks: netd_reset empties the tables and asks the
\* agent to drop the rules.
netd_reset(o) ==
  /\ boostUidTbl' = [e \in Entry |-> NoUid]
  /\ lastFgBoost' = NoUid /\ fgUid' = NoUid
  /\ boosts' = [v \in Value |-> 0]
  /\ uidRules' = IF o = "done" THEN {} ELSE uidRules
  /\ strayUids' = IF o = "done" THEN {} ELSE strayUids \cup uidRules
  /\ UNCHANGED <<channel, boostEnabled>>

UidNext ==
  \/ \E v \in Value, o \in Outcome :
       netd_set_priority_uid(v, o) \/ netd_clear_priority_uid(v, o)
  \/ \E uid \in Uid \cup {NoUid} : SetForeground(uid)
  \/ SetNetdStatus
  \/ \E act \in {"UIDSET", "UIDCLEAR", "UIDCLEARALL"}, uid \in Uid :
       booster_netd_process_uid_request(act, uid)
  \/ \E o \in Outcome : netd_reset(o)
-----------------------------------------------------------------------------
(***************************************************************************)
(* Rules by link.                                                          *)
(***************************************************************************)

\* Mutant: the link that is overwritten is not cleared.
SetOnePacketLink_NoClear(l, clear, set) ==
  /\ UNCHANGED strayLinks
  /\ linkRules' = IF set = "done" THEN linkRules \cup {l} ELSE linkRules
  /\ pIpFilterTbl' = [pIpFilterTbl EXCEPT ![nIpFilterCurIdx] = l]
  /\ nIpFilterCurIdx' = (nIpFilterCurIdx + 1) % FILTER_COUNT

\* SetOnePacketLink: the link takes the place of the oldest one.  Whether that
\* could be cleared is not looked at.
SetOnePacketLink(l, clear, set) ==
  LET old == pIpFilterTbl[nIpFilterCurIdx]
      left == IF clear = "done" THEN linkRules \ {old} ELSE linkRules
  IN
  /\ strayLinks' = IF clear # "done" /\ old # NoLink THEN strayLinks \cup {old} ELSE strayLinks
  /\ linkRules' = IF set = "done" THEN left \cup {l} ELSE left
  /\ IF set = "failed" THEN UNCHANGED <<pIpFilterTbl, nIpFilterCurIdx>>
     ELSE /\ pIpFilterTbl' = [pIpFilterTbl EXCEPT ![nIpFilterCurIdx] = l]
          /\ nIpFilterCurIdx' = (nIpFilterCurIdx + 1) % FILTER_COUNT

\* deleteAllDupPackerLink stops at the first entry, stop, that cannot be cleared
\* (FILTER_COUNT for none); commands for the entries in lostAt are lost.
Deletable(stop, lostAt) ==
  /\ stop = FILTER_COUNT \/ (stop \in FilterEntry /\ pIpFilterTbl[stop] # NoLink)
  /\ \A e \in lostAt : e < stop /\ pIpFilterTbl[e] # NoLink
Deleted(stop) == [e \in FilterEntry |-> IF e < stop THEN NoLink ELSE pIpFilterTbl[e]]
RulesLeft(stop, lostAt) ==
  linkRules \ {pIpFilterTbl[e] : e \in {e \in FilterEntry : e < stop} \ lostAt}

deleteAllDupPackerLink(stop, lostAt) ==
  /\ Deletable(stop, lostAt)
  /\ pIpFilterTbl' = Deleted(stop)
  /\ linkRules' = RulesLeft(stop, lostAt)
  /\ strayLinks' = strayLinks \cup {pIpFilterTbl[e] : e \in lostAt}
  /\ nIpFilterCurIdx' = IF stop = FILTER_COUNT THEN 0 ELSE nIpFilterCurIdx

\* SetDupPacketMultiLink: when all entries could be cleared, the links that could
\* be set, the n before the first failure, fill the table from its start.  Too
\* long a list is refused after the deletion (n = 0).
SetDupPacketMultiLink(links, n, lostAt) ==
  /\ Deletable(FILTER_COUNT, lostAt)
  /\ pIpFilterTbl' = [e \in FilterEntry |-> IF e < n THEN links[e] ELSE NoLink]
  /\ nIpFilterCurIdx' = n % FILTER_COUNT
  /\ linkRules' = RulesLeft(FILTER_COUNT, lostAt) \cup {links[e] : e \in 0 .. n - 1}
  /\ strayLinks' = strayLinks \cup {pIpFilterTbl[e] : e \in lostAt}

\* The HAL restarts: netd_reset empties the table of links and asks the agent to
\* drop the rules.
netd_reset_links(o) ==
  /\ pIpFilterTbl' = [e \in FilterEntry |-> NoLink]
  /\ nIpFilterCurIdx' = 0
  /\ linkRules' = IF o = "done" THEN {} ELSE linkRules
  /\ strayLinks' = IF o = "done" THEN {} ELSE strayLinks \cup linkRules

\* Requests that go to the agent past the table: SETSYS_NETD_SET_FASTPATH_BY_LINKINFO
\* and its clear, SETSYS_NETD_CLEAR_FASTPATH_RULES, LINFOSET, LINFOCLEAR,
\* LINFOCLEARALL and REMOVEALL of the Java service.
booster_netd_config_by_linkinfo(act, l) ==
  /\ linkRules' = CASE act = "set" -> linkRules \cup {l}
                    [] act = "clear" -> linkRules \ {l}
                    [] act = "clear_all" -> {}
  /\ strayLinks' = IF act = "set" THEN strayLinks \cup {l} ELSE strayLinks
  /\ UNCHANGED <<pIpFilterTbl, nIpFilterCurIdx>>

LinkNext ==
  \/ \E l \in Link, clear, set \in Outcome : SetOnePacketLink(l, clear, set)
  \/ \E stop \in 0..FILTER_COUNT, lostAt \in SUBSET FilterEntry :
       /\ stop # FILTER_COUNT => "failed" \in Outcome
       /\ lostAt # {} => "lost" \in Outcome
       /\ deleteAllDupPackerLink(stop, lostAt)
  \/ \E links \in [FilterEntry -> Link], n \in 0..FILTER_COUNT, lostAt \in SUBSET FilterEntry :
       /\ lostAt # {} => "lost" \in Outcome
       /\ SetDupPacketMultiLink(links, n, lostAt)
  \/ \E act \in {"set", "clear", "clear_all"}, l \in Link :
       booster_netd_config_by_linkinfo(act, l)
  \/ \E o \in Outcome : netd_reset_links(o)
-----------------------------------------------------------------------------
NetdTypeOK ==
  /\ channel \in {1, 2} /\ fgUid \in AnyUid /\ boostEnabled \in BOOLEAN
  /\ boostUidTbl \in [Entry -> AnyUid]
  /\ lastFgBoost \in AnyUid
  /\ boosts \in [Value -> 0..MaxLocks]
  /\ uidRules \subseteq AnyUid /\ strayUids \subseteq AnyUid
  /\ pIpFilterTbl \in [FilterEntry -> Link \cup {NoLink}]
  /\ nIpFilterCurIdx \in FilterEntry
  /\ linkRules \subseteq Link /\ strayLinks \subseteq Link

\* When the last lock has ended, the agent boosts no application but those boosted
\* for good, whatever came to the foreground between the beginning and the end of
\* a lock.  Exceptions are applications whose boost was forgotten when a second
\* lock boosted the foreground, that the agent would not clear, or that were set
\* past the HAL's tables.
BoostEnds ==
  (\A v \in Value : boosts[v] = 0) =>
    \A uid \in uidRules : InTable(uid) \/ uid \in strayUids

\* Every link that has priority is in the HAL's table, from which DELETE_ALL
\* clears it, unless an earlier clear was not carried out or it was set past the
\* table.
LinksListed ==
  \A l \in linkRules : l \in strayLinks \/ \E e \in FilterEntry : pIpFilterTbl[e] = l

NInit == UidInit /\ LinkInit
NNext == \/ UidNext /\ UNCHANGED linkVars
         \/ LinkNext /\ UNCHANGED uidVars
NSpec == NInit /\ [][NNext]_<<uidVars, linkVars>>
=============================================================================
