------------------------------ MODULE Console ------------------------------
(***************************************************************************)
(* Who may watch, and what is shown: the session cookies                   *)
(* (internal/auth/service.go and the gates of internal/api) and the log    *)
(* channel that every log socket reads (Engine.emitLog, handleLogs).       *)
(*                                                                         *)
(* A session is nothing but a signed cookie, so it outlives the process,   *)
(* which may be restarted with the same or another secret; sockets, the    *)
(* channel and the lines in it do not.  The clock moves in fractions of a  *)
(* second, of which the cookie keeps whole ones.  A cookie is what the     *)
(* service issued; a refused login changes nothing and is left out.        *)
(***************************************************************************)
EXTENDS Integers, Sequences, FiniteSets, SequencesExt

CONSTANTS
  Browsers,     \* each has one cookie jar
  Sockets,      \* log sockets that may be opened in the life of a process
  Environments, \* values NIL_LOADER_AUTH_SECRET may have
  Blank,        \* ... when it is unset or white space
  DevDefaultSecret,
  Second,       \* clock steps in a second
  TTL,          \* life of a session, in clock steps (24 h)
  LogCap,       \* capacity of logCh (256)
  MaxTime,      \* bound: clock
  MaxRestarts,  \* bound: restarts
  MaxLines      \* bound: log lines of one process

ASSUME ConsoleAssumption ==
  /\ DevDefaultSecret # Blank
  /\ {Second, TTL, LogCap} \subseteq Nat \ {0}
  /\ {MaxTime, MaxRestarts, MaxLines} \subseteq Nat

VARIABLES
  clock,
  secret,    \* Service.secret
  restarts,  \* restarts so far
  cookie,    \* cookie[b]: [exp, by], expiry in seconds and the secret that signed
  login,     \* history: login[b]: [at, under], clock and secret of the last login
  logCh,     \* Engine.logCh: lines are numbered as they are emitted
  emitted,   \* lines emitted by this process
  spc,       \* spc[s]: handleLogs of socket s
  hand,      \* hand[s]: the line s is writing, or 0
  cut,       \* sockets whose page has closed them
  dropped,   \* history: lines emitted when the channel was full
  shown,     \* history: shown[s]: lines written to s
  lost       \* history: lost[s]: the line s took and could not write, or 0

sessionVars == <<clock, secret, restarts, cookie, login>>
logVars == <<logCh, emitted, spc, hand, cut, dropped, shown, lost>>
vars == <<sessionVars, logVars>>

None == [exp |-> 0, by |-> Blank]
Never == [at |-> -TTL, under |-> Blank]

(* NewServiceFromEnv                                                       *)
SecretOf(env) == IF env = Blank THEN DevDefaultSecret ELSE env

Init ==
  /\ clock = 0
  /\ \E env \in Environments : secret = SecretOf(env)
  /\ restarts = 0
  /\ cookie = [b \in Browsers |-> None]
  /\ login = [b \in Browsers |-> Never]
  /\ logCh = <<>> /\ emitted = 0
  /\ spc = [s \in Sockets |-> "none"]
  /\ hand = [s \in Sockets |-> 0]
  /\ cut = {} /\ dropped = {}
  /\ shown = [s \in Sockets |-> {}]
  /\ lost = [s \in Sockets |-> 0]

-----------------------------------------------------------------------------
(* Sessions.                                                               *)

Pass ==
  /\ clock < MaxTime
  /\ clock' = clock + 1
  /\ UNCHANGED <<secret, restarts, cookie, login, logVars>>

Unix(time) == time \div Second

NewSessionValue(now) == [exp |-> Unix(now + TTL), by |-> secret]

(* handleAuthLogin with a right password: the cookie is replaced.          *)
Login(b) ==
  /\ cookie' = [cookie EXCEPT ![b] = NewSessionValue(clock)]
  /\ login' = [login EXCEPT ![b] = [at |-> clock, under |-> secret]]
  /\ UNCHANGED <<clock, secret, restarts, logVars>>

(* Fault variant: a cookie is valid through the second it expires in. *)
AuthenticatedThrough(b) ==
  /\ cookie[b].by = secret
  /\ Unix(clock) <= cookie[b].exp

(* validateSessionValue, which every gate asks.                            *)
Authenticated(b) ==
  /\ cookie[b].by = secret
  /\ Unix(clock) < cookie[b].exp

(* The process dies, and another one is started.                           *)
Restart(env) ==
  /\ restarts < MaxRestarts
  /\ restarts' = restarts + 1
  /\ secret' = SecretOf(env)
  /\ logCh' = <<>> /\ emitted' = 0
  /\ spc' = [s \in Sockets |-> "none"]
  /\ hand' = [s \in Sockets |-> 0]
  /\ cut' = {} /\ dropped' = {}
  /\ shown' = [s \in Sockets |-> {}]
  /\ lost' = [s \in Sockets |-> 0]
  /\ UNCHANGED <<clock, cookie, login>>

-----------------------------------------------------------------------------
(* The log.                                                                *)

(* Fault variant: a full channel makes room by dropping its oldest line. *)
EmitReplacing ==
  /\ emitted < MaxLines
  /\ emitted' = emitted + 1
  /\ logCh' = Append(IF Len(logCh) = LogCap THEN Tail(logCh) ELSE logCh, emitted + 1)
  /\ UNCHANGED <<sessionVars, spc, hand, cut, dropped, shown, lost>>

(* select { case e.logCh <- msg: default: }                                *)
EmitLog ==
  /\ emitted < MaxLines
  /\ emitted' = emitted + 1
  /\ IF Len(logCh) < LogCap
       THEN logCh' = Append(logCh, emitted + 1) /\ UNCHANGED dropped
       ELSE dropped' = dropped \cup {emitted + 1} /\ UNCHANGED logCh
  /\ UNCHANGED <<sessionVars, spc, hand, cut, shown, lost>>

SocketAt(s, from, to) ==
  /\ spc[s] = from
  /\ spc' = [spc EXCEPT ![s] = to]

(* The gate is asked once: a socket stays when its session expires.        *)
OpenLogs(s, b) ==
  /\ Authenticated(b)
  /\ SocketAt(s, "none", "reading")
  /\ UNCHANGED <<sessionVars, logCh, emitted, hand, cut, dropped, shown, lost>>

(* The page closes its socket, or connects anew: the handler is not told.  *)
ClosePage(s) ==
  /\ spc[s] \in {"reading", "writing"}
  /\ cut' = cut \cup {s}
  /\ UNCHANGED <<sessionVars, logCh, emitted, spc, hand, dropped, shown, lost>>

(* Fault variant: a handler takes the last line that was emitted. *)
TakeNewest(s) ==
  /\ logCh # <<>>
  /\ SocketAt(s, "reading", "writing")
  /\ hand' = [hand EXCEPT ![s] = Last(logCh)]
  /\ logCh' = Front(logCh)
  /\ UNCHANGED <<sessionVars, emitted, cut, dropped, shown, lost>>

(* for msg := range logCh: whichever handler is first gets the line.       *)
Take(s) ==
  /\ logCh # <<>>
  /\ SocketAt(s, "reading", "writing")
  /\ hand' = [hand EXCEPT ![s] = Head(logCh)]
  /\ logCh' = Tail(logCh)
  /\ UNCHANGED <<sessionVars, emitted, cut, dropped, shown, lost>>

(* A write may still succeed into the buffers of a closed connection.      *)
Show(s) ==
  /\ SocketAt(s, "writing", "reading")
  /\ shown' = [shown EXCEPT ![s] = @ \cup {hand[s]}]
  /\ hand' = [hand EXCEPT ![s] = 0]
  /\ UNCHANGED <<sessionVars, logCh, emitted, cut, dropped, lost>>

FailToShow(s) ==
  /\ s \in cut
  /\ SocketAt(s, "writing", "gone")
  /\ lost' = [lost EXCEPT ![s] = hand[s]]
  /\ hand' = [hand EXCEPT ![s] = 0]
  /\ UNCHANGED <<sessionVars, logCh, emitted, cut, dropped, shown>>

Handle(s) == Take(s) \/ Show(s) \/ FailToShow(s)

Next ==
  \/ Pass
  \/ \E b \in Browsers : Login(b)
  \/ \E env \in Environments : Restart(env)
  \/ EmitLog
  \/ \E s \in Sockets :
       \/ \E b \in Browsers : OpenLogs(s, b)
       \/ ClosePage(s)
       \/ Handle(s)

Spec == Init /\ [][Next]_vars

-----------------------------------------------------------------------------
(* Type invariant.                                                         *)
TypeOK ==
  /\ clock \in 0..MaxTime
  /\ secret \in {SecretOf(env) : env \in Environments}
  /\ restarts \in 0..MaxRestarts
  /\ cookie \in [Browsers -> [exp : Nat, by : Environments \cup {Blank, DevDefaultSecret}]]
  /\ logCh \in Seq(1..MaxLines) /\ Len(logCh) <= LogCap
  /\ emitted \in 0..MaxLines
  /\ spc \in [Sockets -> {"none", "reading", "writing", "gone"}]
  /\ hand \in [Sockets -> 0..MaxLines]
  /\ cut \subseteq Sockets
  /\ dropped \subseteq 1..MaxLines
  /\ shown \in [Sockets -> SUBSET (1..MaxLines)]
  /\ lost \in [Sockets -> 0..MaxLines]

(* A session is honoured from the login on for TTL, less the fraction of a *)
(* second the cookie does not keep, and no longer; also by a process       *)
(* started later, if and only if it has the secret of the login.           *)
SessionHonoured ==
  \A b \in Browsers :
    LET age == clock - login[b].at
    IN  /\ Authenticated(b) => age < TTL /\ login[b].under = secret
        /\ age <= TTL - Second /\ login[b].under = secret => Authenticated(b)

(* Where line n is.                                                        *)
Places(n) ==
  {<<"queued", i>> : i \in {j \in 1..Len(logCh) : logCh[j] = n}}
  \cup {<<"dropped", n>> : k \in dropped \cap {n}}
  \cup {<<"taken", s>> : s \in {r \in Sockets : n \in {hand[r], lost[r]} \cup shown[r]}}

(* No line goes astray between the sockets that share the channel: each is *)
(* dropped, queued or in the hands of exactly one handler; one that is     *)
(* lost was taken by a handler whose page had gone, which takes no other.  *)
LogAccounted ==
  /\ \A n \in 1..emitted : Cardinality(Places(n)) = 1
  /\ \A s \in Sockets : lost[s] # 0 => s \in cut /\ hand[s] = 0

(* Lines leave the channel in the order they were emitted, so that every   *)
(* page shows its lines in order.                                          *)
LogInOrder ==
  /\ \A i, j \in 1..Len(logCh) : i < j => logCh[i] < logCh[j]
  /\ \A s \in Sockets :
       /\ \A n \in shown[s] : hand[s] # 0 => n < hand[s]
       /\ \A i \in 1..Len(logCh), n \in shown[s] \cup {hand[s], lost[s]} : n < logCh[i]

=============================================================================
