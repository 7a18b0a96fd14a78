--------------------------- MODULE SettingsProofs ---------------------------
(***************************************************************************)
(* Facts about the conversions of Measures, for every frequency, width and *)
(* input: what is exact, and where a limit and a measurement agree.  And   *)
(* facts about the settings of a jail: what a setter changes, and which    *)
(* listeners come of them.                                                 *)
(***************************************************************************)
EXTENDS Settings, TLAPS

\* A quotient and the multiples of the divisor.
LEMMA Quotient ==
  ASSUME NEW a \in Nat, NEW q \in Nat, NEW d \in Nat \ {0}
  PROVE  /\ a \div d \in Nat
         /\ a <= q * d => a \div d <= q
         /\ a >= q * d => a \div d >= q
<1>1. a \div d \in Nat /\ (a \div d) * d <= a /\ a < (a \div d + 1) * d
  OBVIOUS
<1> DEFINE r == a \div d
<1> HIDE DEF r
<1>2. r \in Nat /\ r * d <= a /\ a < (r + 1) * d
  BY <1>1 DEF r
<1>3. ASSUME a <= q * d, r > q PROVE FALSE
  <2>1. r >= q + 1
    BY <1>2, <1>3
  <2>2. r * d >= (q + 1) * d
    BY <1>2, <2>1
  <2>3. (q + 1) * d = q * d + d
    OBVIOUS
  <2> QED
    BY <1>2, <1>3, <2>2, <2>3
<1>4. ASSUME a >= q * d, r < q PROVE FALSE
  <2>1. q >= r + 1
    BY <1>2, <1>4
  <2>2. q * d >= (r + 1) * d
    BY <1>2, <2>1
  <2> QED
    BY <1>2, <1>4, <2>2
<1> QED
  BY <1>2, <1>3, <1>4 DEF r

\* `as i64' yields an i64, and changes nothing in the range of one.
LEMMA AsI64 ==
  ASSUME NEW n \in Int
  PROVE  /\ as_i64(n) \in i64
         /\ 0 <= n /\ n < I64 \div 2 => as_i64(n) = n
<1> DEFINE low == n % I64
           half == I64 \div 2
<1>1. low \in 0 .. I64 - 1
  BY MeasuresAssumption
<1>2. half \in Nat /\ I64 = 2 * half
  BY MeasuresAssumption
<1>3. 0 <= n /\ n < half => low = n
  <2> SUFFICES ASSUME 0 <= n, n < half PROVE low = n
    OBVIOUS
  <2>1. n \in 0 .. I64 - 1
    BY <1>2
  <2> QED
    BY <2>1, MeasuresAssumption
<1>4. as_i64(n) = IF low < half THEN low ELSE low - I64
  BY DEF as_i64
<1> HIDE DEF low, half
<1>5. i64 = -half .. half - 1
  BY DEF i64, half
<1>6. (0 <= n /\ n < I64 \div 2) = (0 <= n /\ n < half)
  BY DEF half
<1> QED
  BY <1>1, <1>2, <1>3, <1>4, <1>5, <1>6

\* The number of instructions in a millisecond, and the range of the limits.
LEMMA Cycles ==
  /\ CYCLES_PER_SECOND \div 1000 \in Nat \ {0}
  /\ CYCLES_PER_SECOND = 1000 * (CYCLES_PER_SECOND \div 1000)
BY MeasuresAssumption

LEMMA Millis ==
  ASSUME NEW micros \in Nat
  PROVE  /\ micros \div 1000 \in Nat
         /\ (micros \div 1000) * (CYCLES_PER_SECOND \div 1000) \in Nat
<1>1. micros \div 1000 \in Nat
  OBVIOUS
<1> QED
  BY <1>1, Cycles

\* measured_time_limit stores an i64, whatever duration it is given; if that
\* duration is representable, it is stored exactly and not negative.
THEOREM LimitExact ==
  ASSUME NEW micros \in Nat
  PROVE  /\ instruction_count_limit(micros) \in i64
         /\ Representable(micros) =>
              instruction_count_limit(micros)
                = (micros \div 1000) * (CYCLES_PER_SECOND \div 1000)
<1> DEFINE wide == (micros \div 1000) * (CYCLES_PER_SECOND \div 1000)
<1>1. wide \in Nat
  BY Millis
<1>2. instruction_count_limit(micros) = as_i64(wide)
  BY DEF instruction_count_limit
<1>3. Representable(micros) => wide < I64 \div 2
  BY DEF Representable
<1> HIDE DEF wide
<1>4. as_i64(wide) \in i64 /\ (0 <= wide /\ wide < I64 \div 2 => as_i64(wide) = wide)
  BY <1>1, AsI64
<1>5. 0 <= wide
  BY <1>1
<1>6. Representable(micros) => instruction_count_limit(micros) = wide
  BY <1>2, <1>3, <1>4, <1>5
<1> QED
  BY <1>2, <1>4, <1>6 DEF wide

\* A longer limit on measured time is never stored as fewer instructions, as long
\* as it is representable.
THEOREM LimitMonotone ==
  ASSUME NEW shorter \in Nat, NEW longer \in Nat,
         shorter <= longer, Representable(longer)
  PROVE  instruction_count_limit(shorter) <= instruction_count_limit(longer)
<1> DEFINE s == shorter \div 1000
           l == longer \div 1000
           k == CYCLES_PER_SECOND \div 1000
<1>1. s \in Nat /\ l \in Nat /\ s <= l
  OBVIOUS
<1>2. k \in Nat
  BY Cycles
<1>3. s * k <= l * k /\ s * k \in Nat /\ l * k \in Nat
  <2> HIDE DEF s, l, k
  <2> QED
    BY <1>1, <1>2
<1>4. l * k < I64 \div 2
  BY DEF Representable
<1>5. s * k < I64 \div 2
  <2>1. I64 \div 2 \in Int
    BY MeasuresAssumption
  <2> HIDE DEF s, l, k
  <2> QED
    BY <1>3, <1>4, <2>1
<1>6. Representable(shorter)
  BY <1>5 DEF Representable
<1>7. instruction_count_limit(shorter) = s * k /\ instruction_count_limit(longer) = l * k
  BY <1>6, LimitExact
<1> QED
  BY <1>3, <1>7

\* The limit on measured time and the measured time that is reported agree: a
\* count within the limit is reported as at most the duration that was asked for,
\* and a count beyond the limit as at least that duration.  Both conversions
\* round, and neither may overflow.
THEOREM LimitAgreesWithReport ==
  ASSUME NEW micros \in Nat, Representable(micros),
         NEW n \in Nat, Countable(n)
  PROVE  /\ n <= instruction_count_limit(micros) =>
              measured_time(n) <= micros \div 1000
         /\ n > instruction_count_limit(micros) =>
              measured_time(n) >= micros \div 1000
<1> DEFINE m == micros \div 1000
           k == CYCLES_PER_SECOND \div 1000
           product == n * 1000
<1>1. m \in Nat /\ k \in Nat \ {0} /\ CYCLES_PER_SECOND = 1000 * k
  BY Cycles
<1>2. instruction_count_limit(micros) = m * k
  BY LimitExact
<1>3. product \in Nat
  OBVIOUS
<1>4. as_i64(product) = product
  BY <1>3, AsI64 DEF Countable
<1>5. measured_time(n) = product \div CYCLES_PER_SECOND
  BY <1>3, <1>4 DEF measured_time
<1>6. /\ n <= m * k => product <= m * CYCLES_PER_SECOND
      /\ n > m * k => product >= m * CYCLES_PER_SECOND
  <2>1. m * (1000 * k) = 1000 * (m * k) /\ m * k \in Nat
    <3> HIDE DEF m, k
    <3> QED
      BY <1>1
  <2>2. m * CYCLES_PER_SECOND = 1000 * (m * k)
    BY <1>1, <2>1
  <2> DEFINE mk == m * k
  <2> HIDE DEF m, k, mk
  <2>3. mk \in Nat /\ m * CYCLES_PER_SECOND = 1000 * mk
    BY <2>1, <2>2 DEF mk
  <2>4. /\ n <= mk => product <= 1000 * mk
        /\ n > mk => product >= 1000 * mk
    BY <2>3
  <2> QED
    BY <2>3, <2>4 DEF mk
<1>7. /\ product <= m * CYCLES_PER_SECOND => product \div CYCLES_PER_SECOND <= m
      /\ product >= m * CYCLES_PER_SECOND => product \div CYCLES_PER_SECOND >= m
  <2> HIDE DEF product, m
  <2> QED
    BY <1>1, <1>3, Quotient, MeasuresAssumption
<1> QED
  BY <1>2, <1>5, <1>6, <1>7

-----------------------------------------------------------------------------
(* Settings.                                                               *)

Listener == {"PERF", "TIME_MEASUREMENT", "MEMORY_MEASUREMENT", "PTRACE"}

LEMMA Joined ==
  ASSUME NEW S, NEW a \in Seq(S), NEW b \in Seq(S)
  PROVE  /\ a \o b \in Seq(S) /\ Len(a \o b) = Len(a) + Len(b)
         /\ \A i \in 1..Len(a) : (a \o b)[i] = a[i]
         /\ \A i \in 1..Len(b) : (a \o b)[Len(a) + i] = b[i]
OBVIOUS

\* spawn makes the listener of every feature.
LEMMA ListenersMade ==
  ASSUME NEW settings
  PROVE  /\ Listeners(settings) \in Seq(Listener)
         /\ \A f \in settings.features \cap Feature :
              \E i \in 1..Len(Listeners(settings)) : Listeners(settings)[i] = f
<1> DEFINE p == Made(settings, "PERF", <<"PERF">>)
           t == Made(settings, "TIME_MEASUREMENT", <<"TIME_MEASUREMENT">>)
           m == Made(settings, "MEMORY_MEASUREMENT", <<"MEMORY_MEASUREMENT", "PTRACE">>)
<1>1. Listeners(settings) = (p \o t) \o m
  BY DEF Listeners
<1>2. p \in Seq(Listener) /\ t \in Seq(Listener) /\ m \in Seq(Listener)
  <2>1. <<>> \in Seq(Listener) /\ <<"PERF">> \in Seq(Listener)
    BY DEF Listener
  <2>2. <<"TIME_MEASUREMENT">> \in Seq(Listener)
    BY DEF Listener
  <2>3. <<"MEMORY_MEASUREMENT", "PTRACE">> \in Seq(Listener)
    BY DEF Listener
  <2> QED
    BY <2>1, <2>2, <2>3, Zenon DEF Made
<1>3. /\ "PERF" \in settings.features => Len(p) = 1 /\ p[1] = "PERF"
      /\ "TIME_MEASUREMENT" \in settings.features => Len(t) = 1 /\ t[1] = "TIME_MEASUREMENT"
      /\ "MEMORY_MEASUREMENT" \in settings.features =>
           Len(m) = 2 /\ m[1] = "MEMORY_MEASUREMENT" /\ m[2] = "PTRACE"
  BY DEF Made
<1> HIDE DEF p, t, m
<1> DEFINE pt == p \o t
           ptm == pt \o m
<1>4. /\ pt \in Seq(Listener) /\ Len(pt) = Len(p) + Len(t)
      /\ \A i \in 1..Len(p) : pt[i] = p[i]
      /\ \A i \in 1..Len(t) : pt[Len(p) + i] = t[i]
  BY <1>2, Joined
<1> HIDE DEF pt
<1>p. pt \in Seq(Listener) /\ m \in Seq(Listener)
  BY <1>2, <1>4
<1>5. /\ ptm \in Seq(Listener) /\ Len(ptm) = Len(pt) + Len(m)
      /\ \A i \in 1..Len(pt) : ptm[i] = pt[i]
      /\ \A i \in 1..Len(m) : ptm[Len(pt) + i] = m[i]
  BY <1>p, Joined
<1>6. Listeners(settings) = ptm
  BY <1>1 DEF pt
<1> HIDE DEF ptm
<1>7. /\ Len(p) \in Nat /\ Len(t) \in Nat /\ Len(m) \in Nat /\ Len(pt) \in Nat
  BY <1>2, <1>4
<1>8. "PERF" \in settings.features => 1 \in 1..Len(ptm) /\ ptm[1] = "PERF"
  <2> SUFFICES ASSUME "PERF" \in settings.features PROVE 1 \in 1..Len(ptm) /\ ptm[1] = "PERF"
    OBVIOUS
  <2>1. 1 \in 1..Len(p) /\ 1 \in 1..Len(pt) /\ 1 \in 1..Len(ptm)
    BY <1>3, <1>4, <1>5, <1>7
  <2> QED
    BY <2>1, <1>3, <1>4, <1>5
<1>9. "TIME_MEASUREMENT" \in settings.features =>
        Len(pt) \in 1..Len(ptm) /\ ptm[Len(pt)] = "TIME_MEASUREMENT"
  <2> SUFFICES ASSUME "TIME_MEASUREMENT" \in settings.features
               PROVE  Len(pt) \in 1..Len(ptm) /\ ptm[Len(pt)] = "TIME_MEASUREMENT"
    OBVIOUS
  <2>1. Len(t) = 1 /\ t[1] = "TIME_MEASUREMENT" /\ 1 \in 1..Len(t)
    BY <1>3
  <2>2. pt[Len(p) + 1] = "TIME_MEASUREMENT" /\ Len(pt) = Len(p) + 1
    BY <2>1, <1>4
  <2>3. Len(pt) \in 1..Len(pt) /\ Len(pt) \in 1..Len(ptm)
    BY <2>2, <1>5, <1>7
  <2> QED
    BY <2>2, <2>3, <1>5
<1>10. "MEMORY_MEASUREMENT" \in settings.features =>
         /\ Len(pt) + 1 \in 1..Len(ptm) /\ ptm[Len(pt) + 1] = "MEMORY_MEASUREMENT"
         /\ Len(pt) + 2 \in 1..Len(ptm) /\ ptm[Len(pt) + 2] = "PTRACE"
  BY <1>3, <1>5, <1>7
<1> QED
  BY <1>5, <1>6, <1>8, <1>9, <1>10 DEF Feature

\* The settings are a record, whatever is in its fields.
Whole(j) ==
  j = [limits |-> j.limits, streams |-> j.streams, args |-> j.args,
       working_dir |-> j.working_dir, features |-> j.features]

\* A setter changes one field.
LEMMA SetLimits ==
  ASSUME NEW j, Whole(j), NEW kind, NEW value
  PROVE  /\ Whole(limit(j, kind, value))
         /\ limit(j, kind, value).limits = Some(j.limits, kind, value)
         /\ limit(j, kind, value).streams = j.streams
         /\ limit(j, kind, value).args = j.args
         /\ limit(j, kind, value).working_dir = j.working_dir
         /\ limit(j, kind, value).features = j.features
<1> DEFINE some == Some(j.limits, kind, value)
           k == limit(j, kind, value)
<1>1. k = [j EXCEPT !.limits = some]
  BY DEF limit
<1> HIDE DEF some, k
<1>2. k = [limits |-> some, streams |-> j.streams, args |-> j.args,
           working_dir |-> j.working_dir, features |-> j.features]
  BY <1>1 DEF Whole
<1> QED
  BY <1>2 DEF Whole, some, k

LEMMA SetStreams ==
  ASSUME NEW j, Whole(j), NEW stream, NEW fd
  PROVE  /\ Whole(redirect(j, stream, fd))
         /\ redirect(j, stream, fd).streams = Some(j.streams, stream, fd)
         /\ redirect(j, stream, fd).limits = j.limits
         /\ redirect(j, stream, fd).args = j.args
         /\ redirect(j, stream, fd).working_dir = j.working_dir
         /\ redirect(j, stream, fd).features = j.features
<1> DEFINE some == Some(j.streams, stream, fd)
           k == redirect(j, stream, fd)
<1>1. k = [j EXCEPT !.streams = some]
  BY DEF redirect
<1> HIDE DEF some, k
<1>2. k = [limits |-> j.limits, streams |-> some, args |-> j.args,
           working_dir |-> j.working_dir, features |-> j.features]
  BY <1>1 DEF Whole
<1> QED
  BY <1>2 DEF Whole, some, k

LEMMA SetFeatures ==
  ASSUME NEW j, Whole(j), NEW set
  PROVE  /\ Whole(features(j, set))
         /\ features(j, set).features = j.features \cup set
         /\ features(j, set).limits = j.limits
         /\ features(j, set).streams = j.streams
         /\ features(j, set).args = j.args
         /\ features(j, set).working_dir = j.working_dir
<1> DEFINE all == j.features \cup set
           k == features(j, set)
<1>1. k = [j EXCEPT !.features = all]
  BY DEF features
<1> HIDE DEF all, k
<1>2. k = [limits |-> j.limits, streams |-> j.streams, args |-> j.args,
           working_dir |-> j.working_dir, features |-> all]
  BY <1>1 DEF Whole
<1> QED
  BY <1>2 DEF Whole, all, k

LEMMA SetArgs ==
  ASSUME NEW j, Whole(j), NEW words
  PROVE  /\ Whole(args(j, words)) /\ args(j, words).args = j.args \o words
         /\ args(j, words).limits = j.limits /\ args(j, words).streams = j.streams
         /\ args(j, words).working_dir = j.working_dir
         /\ args(j, words).features = j.features
<1> DEFINE more == j.args \o words
           k == args(j, words)
<1>1. k = [j EXCEPT !.args = more]
  BY DEF args
<1> HIDE DEF more, k
<1>2. k = [limits |-> j.limits, streams |-> j.streams, args |-> more,
           working_dir |-> j.working_dir, features |-> j.features]
  BY <1>1 DEF Whole
<1> QED
  BY <1>2 DEF Whole, more, k

LEMMA SetDir ==
  ASSUME NEW j, Whole(j), NEW dir
  PROVE  /\ Whole(current_dir(j, dir)) /\ current_dir(j, dir).working_dir = dir
         /\ current_dir(j, dir).limits = j.limits /\ current_dir(j, dir).streams = j.streams
         /\ current_dir(j, dir).args = j.args /\ current_dir(j, dir).features = j.features
<1> DEFINE k == current_dir(j, dir)
<1>1. k = [j EXCEPT !.working_dir = dir]
  BY DEF current_dir
<1> HIDE DEF k
<1>2. k = [limits |-> j.limits, streams |-> j.streams, args |-> j.args,
           working_dir |-> dir, features |-> j.features]
  BY <1>1 DEF Whole
<1> QED
  BY <1>2 DEF Whole, k
=============================================================================
