---------------------------- MODULE MCResources ---------------------------
(***************************************************************************)
(* The setters of resources and the table that drives them, for model      *)
(* checking.  They share no state: a behaviour chooses one of them and is  *)
(* a behaviour of it, the others staying as they were initially.           *)
(***************************************************************************)
EXTENDS RscTable, ThermalPolicy, Netd, Setters, Limits

VARIABLE family

vars == <<family, rscVars, tVars, uidVars, linkVars, setterVars, limitVars>>

Family == {"rsc", "thermal", "uid", "link", "setter", "limit"}

\* Components that begin in one of several ways do so only in their own behaviours.
Init ==
  /\ family \in Family
  /\ RscInit /\ TInit /\ UidInit /\ LinkInit /\ SettersInit /\ LimitsInit
  /\ family # "rsc" => row = CHOOSE r \in RscCfgTbl : TRUE
  /\ family # "uid" => channel = 1
  /\ family # "setter" => setter = CHOOSE s \in SetterTbl : s.key # "tid"
  /\ family # "limit" => unit = CHOOSE u \in Units : TRUE

Next ==
  /\ UNCHANGED family
  /\ \/ /\ family = "rsc" /\ RscNext
        /\ UNCHANGED <<tVars, uidVars, linkVars, setterVars, limitVars>>
     \/ /\ family = "thermal" /\ TNext
        /\ UNCHANGED <<rscVars, uidVars, linkVars, setterVars, limitVars>>
     \/ /\ family = "uid" /\ UidNext
        /\ UNCHANGED <<rscVars, tVars, linkVars, setterVars, limitVars>>
     \/ /\ family = "link" /\ LinkNext
        /\ UNCHANGED <<rscVars, tVars, uidVars, setterVars, limitVars>>
     \/ /\ family = "setter" /\ SettersNext
        /\ UNCHANGED <<rscVars, tVars, uidVars, linkVars, limitVars>>
     \/ /\ family = "limit" /\ LimitsNext
        /\ UNCHANGED <<rscVars, tVars, uidVars, linkVars, setterVars>>

Spec == Init /\ [][Next]_vars

\* The types of every component.
TypeOK ==
  /\ family = "rsc" => RscTypeOK
  /\ family = "thermal" => ThermalTypeOK
  /\ family \in {"uid", "link"} => NetdTypeOK
  /\ family = "setter" => SettersTypeOK
  /\ family = "limit" => LimitsTypeOK
===========================================================================
