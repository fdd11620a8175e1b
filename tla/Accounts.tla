------------------------------ MODULE Accounts ------------------------------
(***************************************************************************)
(* Registering and logging in (http_conn::register_request, login_request, *)
(* initmysql_result) for one user name: the map users, in memory, the      *)
(* table users, and the row of the root directory in user_file.  Several   *)
(* sessions use the name, of one person or of several who want it.         *)
(*                                                                         *)
(* The schema is not in the repository: whether name and path are keys of  *)
(* their tables (keyed) is chosen at the start.                            *)
(***************************************************************************)
EXTENDS Integers, FiniteSets, Sequences

CONSTANTS
    Sessions,     \* the clients' sessions
    Passwords,
    None,         \* no password
    MaxTroubles   \* bound on the number of failing statements and restarts of the server

ASSUME AccountAssumption ==
    /\ IsFiniteSet(Sessions) /\ None \notin Passwords
    /\ MaxTroubles \in Nat

VARIABLES
    keyed,      \* whether names and paths are keys
    password,   \* the password each session uses
    users,      \* the password that the map has for the name
    table,      \* the passwords in the rows that the table users has for the name
    roots,      \* the number of rows for the user's root directory
    session,    \* of each session: out, logged in, or the statement to execute
    answered,   \* the passwords whose owner was told "0" to a registration
    troubles    \* failing statements and restarts so far

accountVars == <<keyed, password, users, table, roots, session, answered>>

AccountInit ==
    /\ keyed \in BOOLEAN
    /\ password \in [Sessions -> Passwords]
    /\ troubles = 0

NoAccount == /\ users = None /\ table = <<>> /\ roots = 0 /\ answered = {}
             /\ session = [w \in Sessions |-> "out"]
\* An account with password p; all sessions are its owner's, and logged in.
Existing(p) == /\ users = p /\ table = <<p>> /\ roots = 1 /\ answered = {p}
               /\ password = [w \in Sessions |-> p]
               /\ session = [w \in Sessions |-> "in"]

Goto(w, next) == session' = [session EXCEPT ![w] = next]
Works == UNCHANGED troubles
Fails == troubles < MaxTroubles /\ troubles' = troubles + 1

\* The map is searched outside the lock; "1" if the name is there.
Register(w) ==
    /\ session[w] = "out" /\ users = None
    /\ Goto(w, "insert")
    /\ UNCHANGED <<keyed, password, users, table, roots, answered, troubles>>

InsertUserAlways(w) ==          \* the map is changed whatever the INSERT says
    /\ session[w] = "insert"
    /\ users' = IF users = None THEN password[w] ELSE users
    /\ \/ Works /\ (~ keyed \/ table = <<>>) /\ table' = Append(table, password[w]) /\ Goto(w, "root")
       \/ Works /\ keyed /\ table # <<>> /\ Goto(w, "out") /\ UNCHANGED table
       \/ Fails /\ Goto(w, "out") /\ UNCHANGED table
    /\ UNCHANGED <<keyed, password, roots, answered>>
\* INSERT INTO users, and map::insert, which replaces no entry, in one
\* critical section.
InsertUser(w) ==
    /\ session[w] = "insert"
    /\ \/ /\ Works /\ (~ keyed \/ table = <<>>)
          /\ table' = Append(table, password[w])
          /\ users' = IF users = None THEN password[w] ELSE users
          /\ Goto(w, "root")
       \/ Works /\ keyed /\ table # <<>> /\ Goto(w, "out") /\ UNCHANGED <<users, table>>
       \/ Fails /\ Goto(w, "out") /\ UNCHANGED <<users, table>>
    /\ UNCHANGED <<keyed, password, roots, answered>>

\* INSERT INTO user_file of the root directory; the row in users stays if it fails.
\* (With a key on the name no second session gets here.)
InsertRoot(w) ==
    /\ session[w] = "root" /\ Goto(w, "out")
    /\ \/ Works /\ roots' = roots + 1 /\ answered' = answered \cup {password[w]}
       \/ Fails /\ UNCHANGED <<roots, answered>>
    /\ UNCHANGED <<keyed, password, users, table>>

Login(w) ==
    /\ session[w] = "out" /\ users = password[w]
    /\ Goto(w, "in")
    /\ UNCHANGED <<keyed, password, users, table, roots, answered, troubles>>

\* initmysql_result: of several rows for the name the last one counts, in an
\* order that the SELECT does not say.
Restart ==
    /\ Fails
    /\ \/ table = <<>> /\ users' = None
       \/ \E i \in DOMAIN table : users' = table[i]
    /\ session' = [w \in Sessions |-> "out"]
    /\ UNCHANGED <<keyed, password, table, roots, answered>>

AccountStep(w) == Register(w) \/ InsertUser(w) \/ InsertRoot(w) \/ Login(w)

-----------------------------------------------------------------------------
AccountTypeOK ==
    /\ keyed \in BOOLEAN
    /\ password \in [Sessions -> Passwords] /\ users \in Passwords \cup {None}
    /\ table \in Seq(Passwords) /\ answered \subseteq Passwords
    /\ roots \in Nat
    /\ session \in [Sessions -> {"out", "insert", "root", "in"}]
    /\ troubles \in 0 .. MaxTroubles

\* Of the sessions that search the map at the same time and all find the name
\* free, one gets it: unless the table took two rows (without a key nothing
\* prevents it) who was told "0" logs in with his password for ever, after a
\* restart too, nobody else was told so, and the root directory exists once.
AccountKept ==
    Len(table) <= 1 =>
        /\ \A p \in answered : users = p
        /\ answered # {} => roots = 1
=============================================================================
