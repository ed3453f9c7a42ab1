------------------------------ MODULE Accounts ------------------------------
(***************************************************************************)
(* One person's e-mail, username, phone and CPF, and the accounts that     *)
(* bear them in turn.  The columns are unique, deleted rows included, so   *)
(* that a soft deletion copies them into a snapshot and overwrites them    *)
(* by tombstones, and restoring writes the snapshot back.  AuthService's   *)
(* register and UserManagementService look first and write in a later      *)
(* statement; only the unique columns hold two writers apart.              *)
(***************************************************************************)
EXTENDS Naturals

CONSTANTS
  AccountIds,
  Operators,        \* calls that may be handled at one time
  MaxAccountDeaths, \* bound: calls whose process dies
  NoAccount

ASSUME AccountsAssumption == MaxAccountDeaths \in Nat /\ NoAccount \notin AccountIds

VARIABLES
  shows,      \* what an account's columns hold, "nothing" before it exists
  deleted,    \* accounts with a deletedAt
  snapshot,   \* deletedIdentitySnapshot
  operation,  \* [Operators -> [at, account, read]]
  edited,     \* history: accounts edited after their deletion
  contended,  \* history: accounts on which two calls have overlapped
  accountDeaths

identityVars == <<shows, deleted, snapshot>>
accountsVars == <<identityVars, operation, edited, contended, accountDeaths>>

NoOperation == [at |-> "idle", account |-> NoAccount, read |-> "none"]

AccountsInit ==
  /\ shows = [u \in AccountIds |-> "nothing"]
  /\ deleted = {}
  /\ snapshot = [u \in AccountIds |-> "none"]
  /\ operation = [o \in Operators |-> NoOperation]
  /\ edited = {} /\ contended = {} /\ accountDeaths = 0

\* findByPhone and the like pass over deleted rows; the unique columns do not.
Found == \E u \in AccountIds \ deleted : shows[u] = "person"
Conflicts(u) == \E v \in AccountIds \ {u} : shows[v] = "person"

Opens(o, step, u) ==
  /\ operation[o].at = "idle"
  /\ operation' = [operation EXCEPT ![o] = [at |-> step, account |-> u, read |-> "none"]]
  /\ contended' = IF u # NoAccount /\ \E p \in Operators : operation[p].account = u
                  THEN contended \union {u} ELSE contended
  /\ UNCHANGED <<identityVars, edited, accountDeaths>>

Proceeds(o, from, op) ==
  /\ operation[o].at = from
  /\ operation' = [operation EXCEPT ![o] = op]
  /\ UNCHANGED <<contended, accountDeaths>>

Target(o) == operation[o].account
-----------------------------------------------------------------------------
Register(o) == ~ Found /\ Opens(o, "create", NoAccount)

\* users.create, which fails if the person has an account by now.
CreateUser(o) ==
  \E u \in AccountIds :
    /\ shows[u] = "nothing"
    /\ Proceeds(o, "create", NoOperation)
    /\ shows' = IF Conflicts(u) THEN shows ELSE [shows EXCEPT ![u] = "person"]
    /\ UNCHANGED <<deleted, snapshot, edited>>

\* update gives an account of tombstones the person's columns; it does not
\* look at deletedAt.
Update(o, u) ==
  /\ shows[u] = "tombstone" /\ ~ Found
  /\ Opens(o, "edit", u)

EditRow(o) ==
  /\ Proceeds(o, "edit", NoOperation)
  /\ IF Conflicts(Target(o)) THEN UNCHANGED <<shows, edited>>
     ELSE /\ shows' = [shows EXCEPT ![Target(o)] = "person"]
          /\ edited' = edited \union ({Target(o)} \intersect deleted)
  /\ UNCHANGED <<deleted, snapshot>>
-----------------------------------------------------------------------------
\* Mutant: an account is deleted again.
MayDeleteAgain(u) == shows[u] # "nothing"

MayDelete(u) == shows[u] # "nothing" /\ u \notin deleted

SoftDelete(o, u) == MayDelete(u) /\ Opens(o, "copy", u)

CopyIdentity(o) ==
  /\ Proceeds(o, "copy",
       [at |-> "tombstone", account |-> Target(o), read |-> shows[Target(o)]])
  /\ UNCHANGED <<identityVars, edited>>

Tombstone(o) ==
  /\ Proceeds(o, "tombstone", NoOperation)
  /\ deleted' = deleted \union {Target(o)}
  /\ snapshot' = [snapshot EXCEPT ![Target(o)] = operation[o].read]
  /\ shows' = [shows EXCEPT ![Target(o)] = "tombstone"]
  /\ edited' = edited \ {Target(o)}
-----------------------------------------------------------------------------
\* restore refuses if somebody else bears what the snapshot holds.
RestoreAccount(o, u) ==
  /\ u \in deleted
  /\ ~ (snapshot[u] = "person" /\ Found)
  /\ Opens(o, "reread", u)

ReadSnapshot(o) ==
  /\ Proceeds(o, "reread",
       [at |-> "write", account |-> Target(o), read |-> snapshot[Target(o)]])
  /\ UNCHANGED <<identityVars, edited>>

\* Without a snapshot the columns stay as they are.
WriteBack(o) ==
  LET u == Target(o)
      old == operation[o].read
  IN  /\ Proceeds(o, "write", NoOperation)
      /\ IF old = "person" /\ Conflicts(u) THEN UNCHANGED identityVars
         ELSE /\ deleted' = deleted \ {u}
              /\ snapshot' = [snapshot EXCEPT ![u] = "none"]
              /\ shows' = [shows EXCEPT ![u] = IF old = "none" THEN @ ELSE old]
      /\ UNCHANGED edited

OperatorDies(o) ==
  /\ operation[o].at # "idle"
  /\ accountDeaths < MaxAccountDeaths
  /\ accountDeaths' = accountDeaths + 1
  /\ operation' = [operation EXCEPT ![o] = NoOperation]
  /\ UNCHANGED <<identityVars, edited, contended>>

AccountsNext ==
  \E o \in Operators :
    \/ Register(o) \/ CreateUser(o) \/ EditRow(o) \/ CopyIdentity(o) \/ Tombstone(o)
    \/ ReadSnapshot(o) \/ WriteBack(o) \/ OperatorDies(o)
    \/ \E u \in AccountIds : Update(o, u) \/ SoftDelete(o, u) \/ RestoreAccount(o, u)

AccountsSpec == AccountsInit /\ [][AccountsNext]_accountsVars
-----------------------------------------------------------------------------
AccountsTypeOK ==
  /\ shows \in [AccountIds -> {"nothing", "person", "tombstone"}]
  /\ deleted \subseteq AccountIds
  /\ edited \subseteq AccountIds /\ contended \subseteq AccountIds
  /\ snapshot \in [AccountIds -> {"none", "person", "tombstone"}]
  /\ operation \in [Operators ->
       [at : {"idle", "create", "edit", "copy", "tombstone", "reread", "write"},
        account : AccountIds \union {NoAccount},
        read : {"none", "person", "tombstone"}]]
  /\ accountDeaths \in 0..MaxAccountDeaths

\* Whatever is deleted, restored and registered again, each account bears its
\* person's columns or can be given them back, unless two calls overlapped on
\* it: a second deletion takes the tombstones for the identity.
IdentityIsKept ==
  \A u \in AccountIds \ contended :
    shows[u] = "nothing" \/ "person" \in {shows[u], snapshot[u]}

\* A deleted account stands in nobody's way, unless it was edited afterwards.
DeletedIsOutOfTheWay == \A u \in deleted \ edited : shows[u] = "tombstone"

\* Nobody's identity is lost, and nobody is locked out by an account that was
\* deleted.
IdentitiesAreSafe == IdentityIsKept /\ DeletedIsOutOfTheWay
=============================================================================
