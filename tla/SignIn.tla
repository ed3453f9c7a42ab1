------------------------------- MODULE SignIn -------------------------------
(***************************************************************************)
(* The two counters that stand between a caller and a password: the login  *)
(* rate limiter, an INCR in Redis that its first caller gives an expiry,   *)
(* and the attempts counted on the user's row, which lock it for a while.  *)
(* One address and one user.  What a successful sign-in does to sessions   *)
(* is in Sessions.                                                         *)
(***************************************************************************)
EXTENDS Naturals, FiniteSets

CONSTANTS
  Callers,       \* sign-ins that may be handled at one time
  LoginMax,      \* RateLimiters.login.max
  MAX_LOGIN_ATTEMPTS,
  AttemptsBound, \* bound: no lock lapses once so many attempts are counted
  MaxSignInDeaths \* bound: calls whose process dies

ASSUME SignInAssumption ==
  /\ IsFiniteSet(Callers)
  /\ LoginMax \in Nat /\ MAX_LOGIN_ATTEMPTS \in Nat \ {0}
  /\ AttemptsBound \in Nat /\ MaxSignInDeaths \in Nat

VARIABLES
  hits, expiring,    \* the limiter's counter, and whether its key expires
  attempts, locked,  \* loginAttempts; lockedUntil lies ahead
  signIn,            \* [Callers -> the step it is about to take]
  guesses,           \* history: wrong passwords since a right one or a lapse
  signInDeaths

limiterVars == <<hits, expiring>>
lockVars == <<attempts, locked>>
signInVars == <<limiterVars, lockVars, signIn, guesses, signInDeaths>>

SignInInit ==
  /\ hits = 0 /\ expiring = FALSE
  /\ attempts = 0 /\ locked = FALSE
  /\ signIn = [c \in Callers |-> "idle"]
  /\ guesses = 0 /\ signInDeaths = 0

Step(c, from, to) == signIn[c] = from /\ signIn' = [signIn EXCEPT ![c] = to]
-----------------------------------------------------------------------------
\* The caller whose INCR answers 1 gives the key its expiry.
GivesExpiry(n) == n = 1

Allowed(n) == n <= LoginMax

\* bound: requests after the first that is refused are refused alike.
Hit(c) ==
  /\ hits <= LoginMax
  /\ hits' = hits + 1
  /\ Step(c, "idle", IF GivesExpiry(hits') THEN "expire"
                     ELSE IF Allowed(hits') THEN "find" ELSE "idle")
  /\ UNCHANGED <<expiring, lockVars, guesses, signInDeaths>>

SetExpiry(c) ==
  /\ Step(c, "expire", IF Allowed(1) THEN "find" ELSE "idle")
  /\ expiring' = (hits > 0)
  /\ UNCHANGED <<hits, lockVars, guesses, signInDeaths>>

WindowEnds ==
  /\ expiring
  /\ hits' = 0 /\ expiring' = FALSE
  /\ UNCHANGED <<lockVars, signIn, guesses, signInDeaths>>
-----------------------------------------------------------------------------
\* login reads the user's row and refuses at once while it is locked.
FindUser(c) ==
  /\ Step(c, "find", IF locked THEN "idle" ELSE "verify")
  /\ UNCHANGED <<limiterVars, lockVars, guesses, signInDeaths>>

\* verifyPassword; resetLoginAttempts is the statement after it.
RightPassword(c) ==
  /\ Step(c, "verify", "reset")
  /\ UNCHANGED <<limiterVars, lockVars, guesses, signInDeaths>>

WrongPassword(c) ==
  /\ Step(c, "verify", "increment")
  /\ guesses' = guesses + 1
  /\ UNCHANGED <<limiterVars, lockVars, signInDeaths>>

Reset(c) ==
  /\ Step(c, "reset", "idle")
  /\ attempts' = 0 /\ locked' = FALSE /\ guesses' = 0
  /\ UNCHANGED <<limiterVars, signInDeaths>>

\* Mutant: one attempt more.
LocksLate(n) == n > MAX_LOGIN_ATTEMPTS

Locks(n) == n >= MAX_LOGIN_ATTEMPTS

IncrementLoginAttempts(c) ==
  /\ attempts' = attempts + 1
  /\ Step(c, "increment", IF Locks(attempts') THEN "lock" ELSE "idle")
  /\ UNCHANGED <<limiterVars, locked, guesses, signInDeaths>>

SetLockedUntil(c) ==
  /\ Step(c, "lock", "idle")
  /\ locked' = TRUE
  /\ UNCHANGED <<limiterVars, attempts, guesses, signInDeaths>>

\* The lock ends; the attempts stay counted, so that the next wrong password
\* locks again.
LockLapses ==
  /\ locked /\ attempts < AttemptsBound
  /\ locked' = FALSE /\ guesses' = 0
  /\ UNCHANGED <<limiterVars, attempts, signIn, signInDeaths>>

SignInDies(c) ==
  /\ signIn[c] # "idle"
  /\ signInDeaths < MaxSignInDeaths
  /\ signInDeaths' = signInDeaths + 1
  /\ signIn' = [signIn EXCEPT ![c] = "idle"]
  /\ UNCHANGED <<limiterVars, lockVars, guesses>>

SignInNext ==
  \/ WindowEnds \/ LockLapses
  \/ \E c \in Callers :
       \/ Hit(c) \/ SetExpiry(c) \/ FindUser(c) \/ RightPassword(c) \/ WrongPassword(c)
       \/ Reset(c) \/ IncrementLoginAttempts(c) \/ SetLockedUntil(c) \/ SignInDies(c)
-----------------------------------------------------------------------------
SignInTypeOK ==
  /\ hits \in 0..LoginMax + 1 /\ expiring \in BOOLEAN
  /\ attempts \in Nat /\ locked \in BOOLEAN
  /\ signIn \in [Callers -> {"idle", "expire", "find", "verify", "reset", "increment", "lock"}]
  /\ guesses \in Nat /\ signInDeaths \in 0..MaxSignInDeaths

\* A counter that holds requests back is going to expire: its key has an expiry
\* or its first caller is about to set it, unless that caller's process died.
CounterExpires ==
  hits > 0 => \/ expiring
              \/ \E c \in Callers : signIn[c] = "expire"
              \/ signInDeaths > 0

\* However many sign-ins overlap, the wrong passwords tried before the lock
\* holds exceed the limit by no more than the calls under way when it was
\* reached, and those that died before they were counted.
GuessesAreBounded ==
  guesses <= MAX_LOGIN_ATTEMPTS - 1 + Cardinality(Callers) + signInDeaths

\* Both counters do what they are there for, though each is counted in one
\* statement and made effective in another.
SignInIsBounded == CounterExpires /\ GuessesAreBounded
=============================================================================
