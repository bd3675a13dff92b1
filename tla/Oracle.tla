------------------------------- MODULE Oracle -------------------------------
(***************************************************************************)
(* The oracle contract (oracle/src/lib.rs): the admin announces relayers,  *)
(* anybody activates an announced relayer once the notice period is over,  *)
(* and active relayers submit readings for feeds.  A reading is served     *)
(* until it is older than STALENESS.  A call that returns an error leaves  *)
(* no trace, so every action carries the whole guard of its entrypoint.    *)
(*                                                                         *)
(* Times are in whatever unit the constants NOTICE, STALENESS and INTERVAL *)
(* use.  Feed metadata (descriptive only), `upgrade` and the view          *)
(* is_triggered, which compares a served reading with compiled-in          *)
(* thresholds, are left out.                                               *)
(***************************************************************************)
EXTENDS LedgerClock, Integers, FiniteSets

CONSTANTS
    OracleAdmins,  \* addresses that may hold the admin role
    Relays,        \* addresses that may be announced as relayers
    Feeds,         \* feed identifiers
    Values,        \* readings a relayer may report
    Thresholds,    \* values set_threshold may store
    Deltas,        \* reputation adjustments
    NOTICE,        \* MIN_ADDITION_NOTICE_PERIOD_SECS
    STALENESS,     \* MAX_STALENESS_SECS
    INTERVAL,      \* MIN_SUBMISSION_INTERVAL_SECS
    INITIAL, FLOOR, CEILING    \* REPUTATION_INITIAL, _FLOOR and _CEILING

ASSUME OracleConstants ==
    /\ Values \subseteq Int /\ Thresholds \subseteq Int /\ Deltas \subseteq Int
    /\ NOTICE \in Nat /\ STALENESS \in Nat /\ INTERVAL \in Nat \ {0}
    /\ INITIAL \in Nat /\ FLOOR \in Nat /\ CEILING \in Nat
    /\ FLOOR <= INITIAL /\ INITIAL <= CEILING
    /\ None \notin Int \union Relays \union OracleAdmins

VARIABLES
    oracleAdmin, oraclePending,   \* DataKey::Admin and DataKey::PendingAdmin
    relayers,      \* the active relayers
    pending,       \* address -> time it was queued, or None
    reputation,    \* address -> score, or None
    triggerLevel,  \* feed -> configured threshold, or None
    reading,       \* feed -> stored reading, or None
    lastSubmission,\* (address, feed) -> ledger time of the last accepted submission, or None
    \* history
    outsideAt,     \* address -> last time a removal took effect (0: never announced yet)
    accepts,       \* (address, feed) -> number of accepted submissions
    newest         \* feed -> newest capture time accepted from anybody, or None

roles == <<oracleAdmin, oraclePending, relayers, pending, reputation, outsideAt>>
data == <<triggerLevel, reading, lastSubmission, accepts, newest>>
oracleVars == <<now, roles, data>>

OracleReading == [value : Int, timestamp : Nat]

ASSUME AbsentReading == None \notin OracleReading

OracleInit ==
    /\ LedgerInit
    /\ oracleAdmin = None /\ oraclePending = None
    /\ relayers = {}
    /\ pending = [r \in Relays |-> None]
    /\ reputation = [r \in Relays |-> None]
    /\ outsideAt = [r \in Relays |-> 0]
    /\ triggerLevel = [f \in Feeds |-> None]
    /\ reading = [f \in Feeds |-> None]
    /\ newest = [f \in Feeds |-> None]
    /\ lastSubmission = [p \in Relays \X Feeds |-> None]
    /\ accepts = [p \in Relays \X Feeds |-> 0]

OracleTick == LedgerTick /\ UNCHANGED <<roles, data>>

-----------------------------------------------------------------------------
\* Roles.  Admin entrypoints need an installed admin, whose signature the host checks.
oracle_initialize(newAdmin) ==
    /\ oracleAdmin = None
    /\ oracleAdmin' = newAdmin /\ relayers' = {}
    /\ UNCHANGED <<now, oraclePending, pending, reputation, outsideAt, data>>

oracle_propose_admin(newAdmin) ==
    /\ oracleAdmin # None
    /\ oraclePending' = newAdmin
    /\ UNCHANGED <<now, oracleAdmin, relayers, pending, reputation, outsideAt, data>>

oracle_accept_admin(caller) ==
    /\ oraclePending = caller
    /\ oracleAdmin' = caller /\ oraclePending' = None
    /\ UNCHANGED <<now, relayers, pending, reputation, outsideAt, data>>

\* Announcing an active relayer changes nothing; announcing a queued one starts its notice anew.
add_relayer(r) ==
    /\ oracleAdmin # None /\ r \notin relayers
    /\ pending' = [pending EXCEPT ![r] = now]
    /\ UNCHANGED <<now, oracleAdmin, oraclePending, relayers, reputation, outsideAt, data>>

\* A queued relayer is never active (RelayersGaveNotice), so the promotion always stores the initial score.
activate_relayer(r) ==
    /\ pending[r] # None /\ now >= pending[r] + NOTICE
    /\ relayers' = relayers \union {r}
    /\ reputation' = IF r \in relayers THEN reputation ELSE [reputation EXCEPT ![r] = INITIAL]
    /\ pending' = [pending EXCEPT ![r] = None]
    /\ UNCHANGED <<now, oracleAdmin, oraclePending, outsideAt, data>>

\* Mutant: the queue entry of a removed relayer survives.
remove_relayerKeepsPending(r) ==
    /\ oracleAdmin # None
    /\ relayers' = relayers \ {r}
    /\ outsideAt' = [outsideAt EXCEPT ![r] = now]
    /\ UNCHANGED <<now, oracleAdmin, oraclePending, pending, reputation, data>>

remove_relayer(r) ==
    /\ oracleAdmin # None
    /\ relayers' = relayers \ {r}
    /\ pending' = [pending EXCEPT ![r] = None]
    /\ outsideAt' = [outsideAt EXCEPT ![r] = now]
    /\ UNCHANGED <<now, oracleAdmin, oraclePending, reputation, data>>

Clamp(n) == IF n < FLOOR THEN FLOOR ELSE IF n > CEILING THEN CEILING ELSE n

update_reputation(r, delta) ==
    LET current == IF reputation[r] = None THEN INITIAL ELSE reputation[r]
    IN  /\ oracleAdmin # None
        /\ reputation' = [reputation EXCEPT ![r] = Clamp(current + delta)]
        /\ UNCHANGED <<now, oracleAdmin, oraclePending, relayers, pending, outsideAt, data>>

-----------------------------------------------------------------------------
\* Readings.
set_threshold(f, value) ==
    /\ oracleAdmin # None
    /\ triggerLevel' = [triggerLevel EXCEPT ![f] = value]
    /\ UNCHANGED <<now, roles, reading, lastSubmission, accepts, newest>>

\* require_relayer
MaySubmit(caller) == caller \in relayers

CooledDown(r, f) ==
    lastSubmission[<<r, f>>] # None => now - lastSubmission[<<r, f>>] >= INTERVAL

\* Mutant: a submission is compared with the ledger only, not with the reading on file.
InOrderAny(f, timestamp) == TRUE

InOrder(f, timestamp) == reading[f] # None => timestamp >= reading[f].timestamp

submit(r, f, value, timestamp) ==
    /\ MaySubmit(r)
    /\ timestamp <= now /\ now - timestamp <= STALENESS
    /\ CooledDown(r, f)
    /\ InOrder(f, timestamp)
    /\ lastSubmission' = [lastSubmission EXCEPT ![<<r, f>>] = now]
    /\ reading' = [reading EXCEPT ![f] = [value |-> value, timestamp |-> timestamp]]
    /\ accepts' = [accepts EXCEPT ![<<r, f>>] = @ + 1]
    /\ newest' = [newest EXCEPT ![f] = IF @ # None /\ @ > timestamp THEN @ ELSE timestamp]
    /\ UNCHANGED <<now, roles, triggerLevel>>

\* get_reading answers; `now` never lies before a stored timestamp (ServesNewest).
Served(f) == reading[f] # None /\ now - reading[f].timestamp <= STALENESS

OracleNext ==
    \/ OracleTick
    \/ \E a \in OracleAdmins : \/ oracle_initialize(a)
                               \/ oracle_propose_admin(a)
                               \/ oracle_accept_admin(a)
    \/ \E r \in Relays : add_relayer(r) \/ activate_relayer(r) \/ remove_relayer(r)
    \/ \E a \in Relays, d \in Deltas : update_reputation(a, d)
    \/ \E f \in Feeds, v \in Thresholds : set_threshold(f, v)
    \/ \E a \in Relays, f \in Feeds, v \in Values, t \in 0 .. now : submit(a, f, v, t)

OracleSpec == OracleInit /\ [][OracleNext]_oracleVars

-----------------------------------------------------------------------------
\* Type invariant.  The reputation part says that update_reputation's clamp and the initial score
\* keep every score in [REPUTATION_FLOOR, REPUTATION_CEILING].
OracleTypeOK ==
    /\ now \in 0 .. MaxTime
    /\ {oracleAdmin, oraclePending} \subseteq OracleAdmins \union {None}
    /\ relayers \subseteq Relays
    /\ pending \in [Relays -> (0 .. MaxTime) \union {None}]
    /\ reputation \in [Relays -> (FLOOR .. CEILING) \union {None}]
    /\ triggerLevel \in [Feeds -> Int \union {None}]
    /\ \A f \in Feeds : reading[f] # None => reading[f] \in OracleReading
    /\ lastSubmission \in [Relays \X Feeds -> (0 .. MaxTime) \union {None}]
    /\ accepts \in [Relays \X Feeds -> Nat]

\* An address that was removed (or never announced) has to sit out a whole notice period before it
\* is active again: at any time an active relayer has been inside for at least NOTICE, and a queue
\* entry is younger than the last removal.  remove_relayer promises that a removed relayer "can
\* never be activated after removal"; add_relayer, activate_relayer and remove_relayer may come in
\* any order.
RelayersGaveNotice ==
    /\ OracleTypeOK
    /\ \A r \in relayers : now >= outsideAt[r] + NOTICE /\ reputation[r] # None
    /\ \A r \in Relays : pending[r] # None => r \notin relayers /\ pending[r] >= outsideAt[r]

\* submit's rate limit bounds what one relayer writes to one feed over the whole history of the
\* contract, removals and back-dated capture times included: n submissions take n - 1 intervals.
SubmissionsBounded ==
    \A r \in Relays, f \in Feeds :
        accepts[<<r, f>>] > 0 => (accepts[<<r, f>>] - 1) * INTERVAL <= lastSubmission[<<r, f>>]

\* Whatever the relayers' submissions race on, what get_reading serves is the newest capture anybody
\* had accepted and was captured at most STALENESS ago, never in the future (submit, get_reading); with SubmissionsBounded.
ServesNewest ==
    SubmissionsBounded /\
    \A f \in Feeds :
        /\ reading[f] # None => reading[f].timestamp = newest[f] /\ newest[f] <= now
        /\ Served(f) => now - newest[f] <= STALENESS
=============================================================================
