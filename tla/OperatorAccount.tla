--------------------------- MODULE OperatorAccount ---------------------------
(***************************************************************************)
(* What sl-authd promises about the one operator account: the transitions  *)
(* of the state table, without pairing codes, deadlines, backoff or calls. *)
(* account is what a restarted sl-authd would read, safe what it would read *)
(* after a power loss at the worst moment.                                 *)
(***************************************************************************)
CONSTANTS Secrets, Keys, Weak

VARIABLES account, safe

Nobody == [state |-> "unenrolled"]

Unreadable == [state |-> "invalid"]

Provisional(p, k) == [state |-> "unconfirmed", password |-> p, key |-> k]

Final(p, k) == [state |-> "enrolled", password |-> p, key |-> k]

\* A password nobody may choose: too short, or the recovery key itself.
Acceptable(p, k) == p \notin Weak /\ p # k

\* The new account is safe at once, or a power loss may still undo it.
Becomes(a) == account' = a /\ safe' \in {safe, a}

Enroll(p, k) == account = Nobody /\ Acceptable(p, k) /\ Becomes(Provisional(p, k))

Confirm ==
    account.state = "unconfirmed" /\ Becomes(Final(account.password, account.key))

ChangePassword(p) ==
    /\ account.state = "enrolled" /\ Acceptable(p, account.key)
    /\ Becomes(Final(p, account.key))

\* A reset, from anything, or the expiry of a provisional enrollment.
Discard == Becomes(Nobody)

\* What was not safe is lost, or reaches the disk after all.
PowerLoss == account' \in {account, safe} /\ safe' = account'

Init == account \in {Nobody, Unreadable} /\ safe = account

Next ==
    \/ Discard
    \/ PowerLoss
    \/ Confirm
    \/ \E p \in Secrets : ChangePassword(p)
    \/ \E p \in Secrets, k \in Keys : Enroll(p, k)

Spec == Init /\ [][Next]_<<account, safe>>
=============================================================================
