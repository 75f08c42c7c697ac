------------------------------- MODULE Accounts -------------------------------
(***************************************************************************)
(* Sign-up (UserService.CreateEmailUser, handler Signup and the user       *)
(* command): two checks, then a user and its profile in one transaction.   *)
(* The indexes of the tables keep user.source_user_id, which is the email  *)
(* of such a user, and user_profile.username unique; an INSERT waits for a *)
(* transaction that has inserted the same value.                           *)
(***************************************************************************)
EXTENDS Integers

CONSTANTS
  Signups,   \* calls of CreateEmailUser: each names the user it makes
  Email,     \* normalized input of each
  Username

VARIABLES
  users,     \* rows of omnivore.user
  profiles,  \* rows of omnivore.user_profile, by user
  open,      \* transactions that are not committed
  signup     \* pc, and then the answer, of each call

accountVars == <<users, profiles, open, signup>>

Answers == {"created", "UserAlreadyExists", "UsernameTaken", "error"}

TypeOKAccounts ==
  /\ users \subseteq Signups /\ profiles \subseteq Signups /\ open \subseteq Signups
  /\ signup \in [Signups -> {"begin", "newEmail", "newName", "inserted"} \cup Answers]

InitAccounts ==
  /\ users = {}
  /\ profiles = {}
  /\ open = {}
  /\ signup = [c \in Signups |-> "begin"]

WithEmail(c, rows) == {u \in rows : Email[u] = Email[c]}
WithUsername(c, rows) == {u \in rows : Username[u] = Username[c]}

Answer(c, next) == signup' = [signup EXCEPT ![c] = next]

CheckEmail(c) ==
  /\ signup[c] = "begin"
  /\ Answer(c, IF WithEmail(c, users \ open) = {} THEN "newEmail" ELSE "UserAlreadyExists")
  /\ UNCHANGED <<users, profiles, open>>

CheckUsername(c) ==
  /\ signup[c] = "newEmail"
  /\ Answer(c, IF WithUsername(c, profiles \ open) = {} THEN "newName" ELSE "UsernameTaken")
  /\ UNCHANGED <<users, profiles, open>>

CreateUser(c) ==
  /\ signup[c] = "newName"
  /\ WithEmail(c, users \cap open) = {}
  /\ \/ /\ WithEmail(c, users) = {}
        /\ users' = users \cup {c}
        /\ open' = open \cup {c}
        /\ Answer(c, "inserted")
     \/ /\ WithEmail(c, users) # {}
        /\ Answer(c, "error")
        /\ UNCHANGED <<users, open>>
  /\ UNCHANGED profiles

\* A bug: the two INSERTs are no transaction.
CreateProfileAlone(c) ==
  /\ signup[c] = "inserted"
  /\ open' = open \ {c}
  /\ \/ /\ WithUsername(c, profiles) = {}
        /\ profiles' = profiles \cup {c}
        /\ Answer(c, "created")
     \/ /\ WithUsername(c, profiles) # {}
        /\ Answer(c, "error")
        /\ UNCHANGED profiles
  /\ UNCHANGED users

\* The second INSERT with the COMMIT, or the ROLLBACK.
CreateProfile(c) ==
  /\ signup[c] = "inserted"
  /\ open' = open \ {c}
  /\ \/ /\ WithUsername(c, profiles) = {}
        /\ profiles' = profiles \cup {c}
        /\ Answer(c, "created")
        /\ UNCHANGED users
     \/ /\ WithUsername(c, profiles) # {}
        /\ users' = users \ {c}
        /\ Answer(c, "error")
        /\ UNCHANGED profiles

\* The connection is lost: before the COMMIT, or with its reply.
SignupFails(c) ==
  /\ signup[c] = "inserted"
  /\ open' = open \ {c}
  /\ \/ users' = users \ {c} /\ UNCHANGED profiles
     \/ /\ WithUsername(c, profiles) = {}
        /\ profiles' = profiles \cup {c} /\ UNCHANGED users
  /\ Answer(c, "error")

CreateEmailUser(c) ==
  CheckEmail(c) \/ CheckUsername(c) \/ CreateUser(c) \/ CreateProfile(c)

-----------------------------------------------------------------------------
\* However sign-ups race between their checks and their INSERTs, and whatever
\* fails in between: users and profiles come in pairs, no two accounts share
\* an email or a username, who was told that the account is created has it, and
\* who was told that the email or the username is taken finds it taken
\* (CreateEmailUser).
AccountsWhole ==
  /\ users \ open = profiles
  /\ \A u, v \in profiles : u # v => Email[u] # Email[v] /\ Username[u] # Username[v]
  /\ \A c \in Signups :
       /\ signup[c] = "created" => c \in profiles
       /\ signup[c] = "UserAlreadyExists" => WithEmail(c, profiles) # {}
       /\ signup[c] = "UsernameTaken" => WithUsername(c, profiles) # {}

Atomic == INSTANCE AtomicSignup WITH
  accounts <- profiles,
  answer <- [c \in Signups |-> IF signup[c] \in Answers THEN signup[c] ELSE "none"]

\* Sign-ups that race look as if they came one after the other: each makes its
\* account in one step that finds email and username free, or is turned away
\* at a moment when the account that is in its way exists (CreateEmailUser).
ImplementsAtomicSignup == Atomic!Spec

=============================================================================
