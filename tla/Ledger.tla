------------------------------- MODULE Ledger -------------------------------
(***************************************************************************)
(* rate.Ledger: tenants reserve quota, then commit or roll back.  Every     *)
(* operation is one critical section of Ledger.mu; what makes it hard is    *)
(* time: reservations lapse, days and months end between a reservation and  *)
(* its commit, and usage records are brought up to date only when touched.  *)
(***************************************************************************)
EXTENDS Integers, FiniteSetsExt

CONSTANTS
  Tenants, Ids,  \* tenant and reservation ids
  Nil,           \* no such entry
  Quotas,        \* quotas Configure accepts: daily, monthly, burst
  Amounts,       \* amounts passed to Reserve
  TTLs,          \* ttl arguments of Reserve
  IntWidth,      \* bits of the counters: 64 in the code
  DayLength,     \* instants per day
  MonthLength,   \* instants per month
  MaxTime        \* bound: the last instant

(* The sum of f over the finite set S. *)
Sum(f, S) == MapThenSumSet(LAMBDA x : f[x], S)

(* What Reserve requires of an amount and the types of its arguments; Nil   *)
(* stands for a missing entry and is no entry.                              *)
ASSUME ArgumentAssumption ==
  /\ IsFiniteSet(Ids) /\ Amounts \subseteq Nat \ {0} /\ TTLs \subseteq Int
  /\ Nil \notin Quotas
  /\ Nil \notin [tenant : Tenants, amount : Amounts]
  /\ Nil \notin [tenant : Tenants, amount : Amounts, expiresAt : Int, committed : BOOLEAN]

(* Amounts and limits are int64.  The last conjunct is a law of arithmetic. *)
ASSUME WidthAssumption ==
  /\ \A a \in Amounts : a < 2^(IntWidth - 1)
  /\ \A q \in Quotas : /\ q.daily < 2^(IntWidth - 1)
                        /\ q.monthly < 2^(IntWidth - 1)
                        /\ q.burst < 2^(IntWidth - 1)
  /\ 2^(IntWidth - 1) \in Nat \ {0} /\ 2^IntWidth = 2 * 2^(IntWidth - 1)

ASSUME CalendarAssumption ==
  /\ DayLength \in Nat \ {0} /\ MonthLength \in Nat \ {0} /\ MaxTime \in Nat
  /\ MonthLength % DayLength = 0

(* What Configure checks. *)
ASSUME QuotaAssumption ==
  /\ Quotas \subseteq [daily : Nat, monthly : Nat, burst : Nat]
  /\ \A q \in Quotas : q.daily >= 1 /\ q.monthly >= q.daily /\ q.burst >= 1

VARIABLES
  quotas,        \* Ledger.quotas
  usage,         \* Ledger.usage, the zero Usage where there is none
  reservations,  \* Ledger.reservations
  now,           \* Ledger.clock
  spent,         \* history: units committed per tenant and day
  ceiling,       \* history: the highest limits a tenant ever had
  refused,       \* history: the last step refused this tenant and amount
  wrapped        \* history: tenants for whom a sum that wrapped around passed the checks

vars == <<quotas, usage, reservations, now, spent, ceiling, refused, wrapped>>

Days == 0 .. (MaxTime \div DayLength)

Day(t)   == t \div DayLength
Month(t) == t \div MonthLength

(* Signed integers of IntWidth bits. *)
Int64s == -2^(IntWidth - 1) .. 2^(IntWidth - 1) - 1
Int64(x) == ((x + 2^(IntWidth - 1)) % 2^IntWidth) - 2^(IntWidth - 1)

(* day and month -1: the empty strings of a zero Usage. *)
NoUsage == [day |-> -1, month |-> -1, daily |-> 0, monthly |-> 0,
            reserved |-> 0, committed |-> 0]

Init ==
  /\ quotas = [t \in Tenants |-> Nil]
  /\ usage = [t \in Tenants |-> NoUsage]
  /\ reservations = [id \in Ids |-> Nil]
  /\ now = 0
  /\ spent = [t \in Tenants |-> [d \in Days |-> 0]]
  /\ ceiling = [t \in Tenants |-> [daily |-> 0, monthly |-> 0, burst |-> 0]]
  /\ refused = Nil
  /\ wrapped = {}

-----------------------------------------------------------------------------
Configure(t, q) ==
  /\ quotas' = [quotas EXCEPT ![t] = q]
  /\ ceiling' = [ceiling EXCEPT ![t] = [daily   |-> Max({@.daily, q.daily}),
                                        monthly |-> Max({@.monthly, q.monthly}),
                                        burst   |-> Max({@.burst, q.burst})]]
  /\ refused' = Nil
  /\ UNCHANGED <<usage, reservations, now, spent, wrapped>>

(* Mutant of Current: a new day does not reset the daily usage. *)
CurrentKeepsDaily(u) ==
  [u EXCEPT !.day = Day(now),
            !.month = Month(now), !.monthly = IF u.month = Month(now) THEN @ ELSE 0]

(* currentUsageLocked: a new day or month starts from zero; what is         *)
(* reserved carries over.                                                   *)
Current(u) ==
  [u EXCEPT !.day = Day(now), !.daily = IF u.day = Day(now) THEN @ ELSE 0,
            !.month = Month(now), !.monthly = IF u.month = Month(now) THEN @ ELSE 0]

Amount == [id \in Ids |-> IF reservations[id] = Nil THEN 0 ELSE reservations[id].amount]

Total(S) == Sum(Amount, S)

Open(t) == {id \in Ids : /\ reservations[id] # Nil
                         /\ reservations[id].tenant = t
                         /\ ~reservations[id].committed}

Lapsed(t) == {id \in Open(t) : now > reservations[id].expiresAt}

Clamped(x) == Max({0, x})

(* releaseLocked for every reservation in S, all of one tenant, in the      *)
(* order of a map iteration: any.  A counter that has wrapped around is     *)
(* negative, and the first release may wrap it back.  From then on the      *)
(* clamp keeps it at zero or above, and the order does not matter.          *)
Released(u, S) ==
  IF S = {} THEN {u}
  ELSE {[Current(u) EXCEPT !.reserved =
           Clamped(Clamped(Int64(@ - Amount[first])) - Total(S \ {first}))] : first \in S}

(* expireLocked: the usage and the reservations it leaves. *)
UsagesExpired ==
  {used \in [Tenants -> UNION {Released(usage[t], Lapsed(t)) : t \in Tenants}] :
     \A t \in Tenants : used[t] \in Released(usage[t], Lapsed(t))}
ReservationsExpired ==
  [id \in Ids |-> IF \E t \in Tenants : id \in Lapsed(t) THEN Nil ELSE reservations[id]]

(* Mutant of Fits: the daily check forgets what is reserved. *)
FitsUsedOnly(u, q, a) ==
  /\ Int64(u.daily + a) <= q.daily
  /\ Int64(u.monthly + u.reserved + a) <= q.monthly
  /\ Int64(u.reserved + a) <= q.burst

(* Mutant of Fits: the burst check leaves out the amount asked for. *)
FitsBeforehand(u, q, a) ==
  /\ Int64(u.daily + u.reserved + a) <= q.daily
  /\ Int64(u.monthly + u.reserved + a) <= q.monthly
  /\ u.reserved <= q.burst

(* The three checks of Reserve. *)
Fits(u, q, a) ==
  /\ Int64(u.daily + u.reserved + a) <= q.daily
  /\ Int64(u.monthly + u.reserved + a) <= q.monthly
  /\ Int64(u.reserved + a) <= q.burst

(* The largest of these sums does not fit into a counter. *)
Wraps(u, a) == u.monthly + u.reserved + a >= 2^(IntWidth - 1)

(* Reserve under an id that is not in use.  (For one that is, it returns    *)
(* that reservation, expired or not, and changes nothing.)                  *)
Reserve(id, t, a, ttl) ==
  /\ reservations[id] = Nil
  /\ quotas[t] # Nil
  /\ \E used \in UsagesExpired :
       LET u == Current(used[t]) IN
       \/ /\ Fits(u, quotas[t], a)
          /\ usage' = [used EXCEPT ![t] = [u EXCEPT !.reserved = Int64(@ + a)]]
          /\ reservations' = [ReservationsExpired EXCEPT ![id] =
               [tenant |-> t, amount |-> a, expiresAt |-> now + ttl, committed |-> FALSE]]
          /\ refused' = Nil
          /\ wrapped' = IF Wraps(u, a) THEN wrapped \cup {t} ELSE wrapped
       \/ /\ ~Fits(u, quotas[t], a)
          /\ usage' = used
          /\ reservations' = ReservationsExpired
          /\ refused' = [tenant |-> t, amount |-> a]
          /\ wrapped' = wrapped
  /\ UNCHANGED <<quotas, now, spent, ceiling>>

(* Release of the one reservation id. *)
Release(id) ==
  LET t == reservations[id].tenant IN
  /\ \E u \in Released(usage[t], {id}) : usage' = [usage EXCEPT ![t] = u]
  /\ reservations' = [reservations EXCEPT ![id] = Nil]
  /\ refused' = Nil
  /\ UNCHANGED <<quotas, now, spent, ceiling, wrapped>>

(* Commit of a reservation that is not committed: too late, or not. *)
CommitExpired(id) ==
  /\ reservations[id] # Nil
  /\ ~reservations[id].committed
  /\ now > reservations[id].expiresAt
  /\ Release(id)

(* Mutant of Commit: the monthly usage is forgotten. *)
CommitDailyOnly(id) ==
  /\ reservations[id] # Nil
  /\ ~reservations[id].committed
  /\ now <= reservations[id].expiresAt
  /\ LET r == reservations[id]
         u == Current(usage[r.tenant])
     IN /\ usage' = [usage EXCEPT ![r.tenant] =
             [u EXCEPT !.reserved = Int64(@ - r.amount),
                       !.daily = Int64(@ + r.amount),
                       !.committed = Int64(@ + r.amount)]]
        /\ spent' = [spent EXCEPT ![r.tenant][Day(now)] = @ + r.amount]
  /\ reservations' = [reservations EXCEPT ![id].committed = TRUE]
  /\ refused' = Nil
  /\ UNCHANGED <<quotas, now, ceiling, wrapped>>

Commit(id) ==
  /\ reservations[id] # Nil
  /\ ~reservations[id].committed
  /\ now <= reservations[id].expiresAt
  /\ LET r == reservations[id]
         u == Current(usage[r.tenant])
     IN /\ usage' = [usage EXCEPT ![r.tenant] =
             [u EXCEPT !.reserved = Int64(@ - r.amount),
                       !.daily = Int64(@ + r.amount),
                       !.monthly = Int64(@ + r.amount),
                       !.committed = Int64(@ + r.amount)]]
        /\ spent' = [spent EXCEPT ![r.tenant][Day(now)] = @ + r.amount]
  /\ reservations' = [reservations EXCEPT ![id].committed = TRUE]
  /\ refused' = Nil
  /\ UNCHANGED <<quotas, now, ceiling, wrapped>>

(* Mutant of Rollback: a committed reservation is rolled back too. *)
RollbackCommitted(id) ==
  /\ reservations[id] # Nil
  /\ Release(id)

Rollback(id) ==
  /\ reservations[id] # Nil
  /\ ~reservations[id].committed
  /\ Release(id)

(* Usage, for any tenant, expires the reservations of all. *)
Usage ==
  /\ usage' \in UsagesExpired
  /\ reservations' = ReservationsExpired
  /\ refused' = Nil
  /\ UNCHANGED <<quotas, now, spent, ceiling, wrapped>>

Tick ==
  /\ now < MaxTime
  /\ now' = now + 1
  /\ refused' = Nil
  /\ UNCHANGED <<quotas, usage, reservations, spent, ceiling, wrapped>>

Next ==
  \/ \E t \in Tenants, q \in Quotas : Configure(t, q)
  \/ \E id \in Ids, t \in Tenants, a \in Amounts, ttl \in TTLs : Reserve(id, t, a, ttl)
  \/ \E id \in Ids : Commit(id) \/ CommitExpired(id) \/ Rollback(id)
  \/ Usage
  \/ Tick

Spec == Init /\ [][Next]_vars

-----------------------------------------------------------------------------
(* Properties *)

(* The counters are int64, and for a tenant without a wrapped sum they are  *)
(* not negative and the day is part of the month.                           *)
TypeOK ==
  /\ quotas \in [Tenants -> Quotas \cup {Nil}]
  /\ \A t \in Tenants : /\ {usage[t].daily, usage[t].monthly,
                            usage[t].reserved, usage[t].committed} \subseteq Int64s
                        /\ t \notin wrapped =>
                             /\ usage[t].day \in Days \cup {-1}
                             /\ usage[t].daily >= 0 /\ usage[t].monthly >= usage[t].daily
                             /\ usage[t].reserved >= 0
  /\ \A id \in Ids : reservations[id] # Nil =>
       /\ reservations[id].tenant \in Tenants
       /\ reservations[id].amount \in Amounts
       /\ reservations[id].committed \in BOOLEAN
  /\ now \in 0 .. MaxTime
  /\ wrapped \subseteq Tenants

(* Units a tenant committed in a month. *)
MonthSpent(t, m) == Sum(spent[t], {d \in Days : Month(d * DayLength) = m})

(* The checks of Reserve add before they compare, and nothing bounds an     *)
(* amount but its type: once a tenant has something reserved or committed,  *)
(* an amount next to the largest int64 wraps a sum around and is admitted.  *)
(* The properties say that nothing else breaks the books and the limits,    *)
(* and that such a reservation harms no tenant but its own.                 *)

(* The books balance: Usage.Reserved is what the tenant's open reservations *)
(* add up to and Usage.Committed what the committed ones do (as an int64),  *)
(* so no sequence of lapses, late commits and rollbacks leaks quota or      *)
(* counts it twice.                                                         *)
Balanced ==
  \A t \in Tenants :
    /\ t \notin wrapped => usage[t].reserved = Total(Open(t))
    /\ usage[t].committed =
         Int64(Total({id \in Ids : /\ reservations[id] # Nil
                                   /\ reservations[id].tenant = t
                                   /\ reservations[id].committed}))

(* README, "tenant daily/monthly/burst reservation": the reservations a     *)
(* tenant holds never add up to more than its burst limit, or the highest   *)
(* one it had if that has been lowered since, unless a sum wrapped around.  *)
WithinBurst == \A t \in Tenants \ wrapped : Total(Open(t)) <= ceiling[t].burst

(* What is committed on one day never exceeds the daily limit, nor what is  *)
(* committed in one month the monthly one, whenever it was reserved: a      *)
(* reservation made before midnight and committed after it counts once, on  *)
(* the day of its commit, and was admitted by the limits; again unless a    *)
(* sum wrapped around.                                                      *)
WithinPeriods ==
  \A t \in Tenants \ wrapped, d \in Days :
    /\ spent[t][d] <= ceiling[t].daily
    /\ MonthSpent(t, Month(d * DayLength)) <= ceiling[t].monthly

(* Reserve refuses only what really does not fit: what was committed this   *)
(* day and month and what is reserved and has not lapsed leave no room.     *)
(* Wrapping sums never cause a refusal, only earlier admissions by them do. *)
RefusalIsJust ==
  refused # Nil /\ refused.tenant \notin wrapped =>
    LET t == refused.tenant
        q == quotas[t]
        held == Total(Open(t) \ Lapsed(t)) + refused.amount
    IN \/ spent[t][Day(now)] + held > q.daily
       \/ MonthSpent(t, Month(now)) + held > q.monthly
       \/ held > q.burst
=============================================================================
