-------------------------- MODULE DeviceFingerprints --------------------------
(***************************************************************************)
(* Device fingerprints, which show two accounts on one device: requests    *)
(* that bring one fingerprint hash, each in a transaction of its own.      *)
(***************************************************************************)
EXTENDS Integers, FiniteSetsExt

CONSTANTS
    Accounts, FpSessions,
    MaxOpens    \* bound: requests begun

ASSUME FpAssumption ==
    MaxOpens \in Nat /\ IsFiniteSet(Accounts) /\ IsFiniteSet(FpSessions)

VARIABLES
    seen,       \* committed device_fingerprints: seen_count of the account's row, 0 for none
    visits,     \* requests of the account that were answered with 200
    crossed,    \* pairs of accounts of which two requests were open at the same time
    suspected,  \* accounts of committed multi_account_suspected events
    fp,         \* the sessions
    opens       \* requests begun

fpVars == <<seen, visits, crossed, suspected, fp, opens>>

Away == [step |-> "away"]

FpInit ==
    /\ seen = [a \in Accounts |-> 0] /\ visits = seen
    /\ crossed = {} /\ suspected = {} /\ opens = 0
    /\ fp = [s \in FpSessions |-> Away]

At(s, step)    == fp[s].step = step
Present(s)     == ~At(s, "away")
Others(s, a)   == {r \in FpSessions \ {s} : Present(r) /\ fp[r].account = a}

-----------------------------------------------------------------------------
(* POST /security/fingerprint.                                              *)

\* The row of the account, if there is one, is read.
Look(s, a) ==
    /\ ~Present(s) /\ opens < MaxOpens
    /\ opens' = opens + 1
    /\ fp' = [fp EXCEPT ![s] = [step |-> "looked", account |-> a, read |-> seen[a]]]
    /\ crossed' = crossed \cup UNION {{<<a, fp[r].account>>, <<fp[r].account, a>>} :
                                       r \in {q \in FpSessions : Present(q)}}
    /\ UNCHANGED <<seen, visits, suspected>>

\* The flush holds the row, of an insert the unique key, until the transaction ends.
RowIsFree(s) == \A r \in Others(s, fp[s].account) : ~At(r, "flushed")

MUT_Matching(s) == {a \in Accounts : seen[a] > 0}

\* count_users_with_fingerprint: the committed rows, and the session's own.
Matching(s) == {a \in Accounts : seen[a] > 0} \cup {fp[s].account}

MUT_CountAfter(n) == IF n = 0 THEN 1 ELSE n

CountAfter(n) == n + 1

\* An insert that meets a committed row fails with the unique constraint: 500.
Flush(s) ==
    /\ At(s, "looked") /\ RowIsFree(s)
    /\ fp' = [fp EXCEPT ![s] =
          IF @.read = 0 /\ seen[@.account] > 0 THEN Away
          ELSE [step |-> "flushed", account |-> @.account, count |-> CountAfter(@.read),
                shared |-> Cardinality(Matching(s)) > 1]]
    /\ UNCHANGED <<seen, visits, crossed, suspected, opens>>

FpCommits(s) ==
    LET a == fp[s].account IN
    /\ At(s, "flushed")
    /\ seen' = [seen EXCEPT ![a] = fp[s].count]
    /\ visits' = [visits EXCEPT ![a] = @ + 1]
    /\ suspected' = IF fp[s].shared THEN suspected \cup {a} ELSE suspected
    /\ fp' = [fp EXCEPT ![s] = Away]
    /\ UNCHANGED <<crossed, opens>>

FpRollsBack(s) ==
    /\ Present(s)
    /\ fp' = [fp EXCEPT ![s] = Away]
    /\ UNCHANGED <<seen, visits, crossed, suspected, opens>>

FpNext ==
    \E s \in FpSessions :
        \/ \E a \in Accounts : Look(s, a)
        \/ Flush(s) \/ FpCommits(s) \/ FpRollsBack(s)

FpSpec == FpInit /\ [][FpNext]_fpVars

-----------------------------------------------------------------------------
(* Properties *)

\* Every variable keeps its type.
FpTypeOK ==
    /\ {seen, visits} \subseteq [Accounts -> 0..MaxOpens]
    /\ suspected \subseteq Accounts /\ crossed \subseteq Accounts \X Accounts
    /\ DOMAIN fp = FpSessions /\ opens \in 0..MaxOpens

\* When two accounts have come from one device, one of them is suspected, unless
\* requests of the two were open at the same time.
SharedDeviceIsNoticed ==
    \A a, b \in Accounts : a # b /\ visits[a] > 0 /\ visits[b] > 0 =>
        a \in suspected \/ b \in suspected \/ <<a, b>> \in crossed

\* A device is counted as often as it was seen, unless two requests of the account
\* were open at the same time, and never more often.
SeenAsOftenAsVisited ==
    \A a \in Accounts : /\ seen[a] <= visits[a]
                        /\ <<a, a>> \notin crossed => seen[a] = visits[a]
=============================================================================
