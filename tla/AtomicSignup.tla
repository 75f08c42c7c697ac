------------------------------ MODULE AtomicSignup ------------------------------
(***************************************************************************)
(* What a sign-up promises, as if its checks and its INSERTs were one      *)
(* step: an account that shares no email and no username with another, or  *)
(* the reason why there is none, true when it is given.  A call that broke *)
(* down may have made its account.                                         *)
(***************************************************************************)
CONSTANTS
  Signups,         \* calls, each of which names the account it makes
  Email, Username  \* of each

VARIABLES
  accounts,  \* those that exist
  answer     \* "none" until a call is answered

vars == <<accounts, answer>>

Init ==
  /\ accounts = {}
  /\ answer = [c \in Signups |-> "none"]

EmailTaken(c) == \E a \in accounts : Email[a] = Email[c]
UsernameTaken(c) == \E a \in accounts : Username[a] = Username[c]

Give(c, a) == answer[c] = "none" /\ answer' = [answer EXCEPT ![c] = a]

Open(c) ==
  /\ ~EmailTaken(c) /\ ~UsernameTaken(c)
  /\ accounts' = accounts \cup {c}

SignUp(c) == Open(c) /\ Give(c, "created")

TurnAway(c) ==
  /\ \/ EmailTaken(c) /\ Give(c, "UserAlreadyExists")
     \/ UsernameTaken(c) /\ Give(c, "UsernameTaken")
  /\ UNCHANGED accounts

BreakDown(c) == (Open(c) \/ UNCHANGED accounts) /\ Give(c, "error")

Next == \E c \in Signups : SignUp(c) \/ TurnAway(c) \/ BreakDown(c)

Spec == Init /\ [][Next]_vars

=============================================================================
