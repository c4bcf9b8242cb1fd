---------------------------- MODULE AccountLease ----------------------------
(***************************************************************************)
(* What MachineEJB promises of a pool account, whatever its threads, the   *)
(* nodes and the database do meanwhile: it is granted to one user once, a  *)
(* session begins only while it is granted, a revoked account is never     *)
(* granted again, and it is reclaimed only when revoked and without a      *)
(* session.                                                                *)
(***************************************************************************)
CONSTANT Accounts

VARIABLES
    lease,    \* the state of each account
    session   \* the accounts with a session

leaseVars == <<lease, session>>

LeaseTypeOK ==
    /\ lease \in [Accounts -> {"free", "granted", "revoked", "reclaimed"}]
    /\ session \subseteq Accounts

LeaseInit ==
    /\ lease = [a \in Accounts |-> "free"]
    /\ session = {}

Move(S, from, to) ==
    /\ \A a \in S : lease[a] = from
    /\ lease' = [a \in Accounts |-> IF a \in S THEN to ELSE lease[a]]

Grant(a) == Move({a}, "free", "granted") /\ UNCHANGED session

(* The account was lost before its user was told of it. *)
GrantLost(a) == Move({a}, "free", "revoked") /\ UNCHANGED session

OpenSession(a) ==
    /\ lease[a] = "granted"
    /\ session' = session \cup {a}
    /\ UNCHANGED lease

(* Users leave, one by one or with their node. *)
CloseSessions(S) == session' = session \ S /\ UNCHANGED lease

(* No new session from now on; one that is open goes on. *)
Revoke(a) == Move({a}, "granted", "revoked") /\ UNCHANGED session

(* The account disappears with its session. *)
Lose(a) ==
    /\ lease[a] \in {"granted", "revoked"}
    /\ lease' = [b \in Accounts |-> IF b = a THEN "revoked" ELSE lease[b]]
    /\ session' = session \ {a}

(* The server gives up a set of accounts in one transaction. *)
Reclaim(S) ==
    /\ S \cap session = {}
    /\ Move(S, "revoked", "reclaimed")
    /\ UNCHANGED session

LeaseNext ==
    \/ \E a \in Accounts :
         Grant(a) \/ GrantLost(a) \/ OpenSession(a) \/ Revoke(a) \/ Lose(a)
    \/ \E S \in SUBSET Accounts : CloseSessions(S) \/ Reclaim(S)

LeaseSpec == LeaseInit /\ [][LeaseNext]_leaseVars
=============================================================================
