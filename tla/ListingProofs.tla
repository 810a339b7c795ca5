--------------------------- MODULE ListingProofs ---------------------------
(***************************************************************************)
(* The working hours and the slot list, for every set of events, slots,    *)
(* coaches, zones, hours and exceptions, in every state the booking        *)
(* transactions reach: who is booked is booked minute by minute inside the *)
(* working hours of the staff, and what students are shown can be booked,  *)
(* as long as sessions last a day at most.                                 *)
(***************************************************************************)
EXTENDS SlotListing, BookingStaffProofs, InductionLemmas

-----------------------------------------------------------------------------
(* Dates, minutes and what the calendar check admits *)

\* The minutes of a day, as inequalities.
LEMMA ClockType == \A m : m \in Clock <=> m \in Int /\ 0 <= m /\ m < 1440
<1>1. ASSUME NEW n \in Int PROVE \A m : m \in 0..n <=> m \in Int /\ 0 <= m /\ m <= n
      OBVIOUS
<1>2. Day - 1 \in Int /\ Day - 1 = 1439
      BY DEF Day
<1> QED BY <1>1, <1>2 DEF Clock

\* Reading a local time as a date and a minute loses nothing.
LEMMA LocalTimeExact ==
    ASSUME NEW c \in Coaches, NEW t \in Int
    PROVE  LET a == LocalTime(c, t)
           IN  /\ a.date \in Int /\ a.minute \in Int /\ a.minute \in Clock
               /\ 0 <= a.minute /\ a.minute < 1440
               /\ (1440 * a.date) + a.minute = t + Zone[c]
               /\ Zone[c] \in Int /\ 0 - 1440 < Zone[c] /\ Zone[c] < 1440
<1>1. Zone[c] \in Int /\ 0 - 1440 < Zone[c] /\ Zone[c] < 1440
  <2>1. ASSUME NEW m \in Int, NEW n \in Int PROVE \A x \in m..n : x \in Int /\ m <= x /\ x <= n
        OBVIOUS
  <2>2. /\ Zone[c] \in 1 - Day..Day - 1
        /\ 1 - Day \in Int /\ 1 - Day = 0 - 1439 /\ Day - 1 \in Int /\ Day - 1 = 1439
        BY AvailabilityAssumption DEF Day
  <2>3. Zone[c] \in Int /\ 1 - Day <= Zone[c] /\ Zone[c] <= Day - 1
        BY <2>1, <2>2
  <2> QED BY <2>2, <2>3
<1>2. \A x \in Int : /\ x % 1440 \in Int /\ x \div 1440 \in Int
                     /\ 0 <= x % 1440 /\ x % 1440 < 1440
                     /\ (1440 * (x \div 1440)) + (x % 1440) = x
      OBVIOUS
<1>3. t + Zone[c] \in Int
      BY <1>1
<1>4. LocalTime(c, t) = [date |-> (t + Zone[c]) \div 1440, minute |-> (t + Zone[c]) % 1440]
      BY DEF LocalTime, Day
<1> QED BY <1>1, <1>2, <1>3, <1>4, ClockType

\* A session of a day at most touches two dates.
LEMMA TwoDates ==
    ASSUME NEW c \in Coaches, NEW t \in Int, NEW u \in Int, t <= u, u <= t + 1440
    PROVE  LET a == LocalTime(c, t)
               b == LocalTime(c, u)
           IN  \/ b.date = a.date /\ a.minute <= b.minute
               \/ b.date = a.date + 1
<1> DEFINE a == LocalTime(c, t)
           b == LocalTime(c, u)
<1>1. /\ a.date \in Int /\ a.minute \in Int /\ b.date \in Int /\ b.minute \in Int
      /\ 0 <= a.minute /\ a.minute < 1440 /\ 0 <= b.minute /\ b.minute < 1440
      /\ (1440 * a.date) + a.minute = t + Zone[c] /\ (1440 * b.date) + b.minute = u + Zone[c]
      /\ Zone[c] \in Int
      BY LocalTimeExact
<1> HIDE DEF a, b
<1>2. (b.date = a.date /\ a.minute <= b.minute) \/ b.date = a.date + 1
      BY <1>1
<1> QED BY <1>2 DEF a, b

\* An exception and a time window have their bounds.
LEMMA ExceptionType ==
    ASSUME NEW c \in Coaches, NEW x \in Exceptions[c]
    PROVE  /\ x.date \in Int
           /\ \/ x.blocked /\ x.from = Null
              \/ x.from # Null /\ x.from \in Clock /\ x.to \in Clock
<1>1. x \in Exception
      BY AvailabilityAssumption
<1>2. Null \notin Clock
      BY NullAssumption DEF Clock, Day
<1> QED BY <1>1, <1>2 DEF Exception

\* What is open for a part of a date is open at each of its minutes.
LEMMA OpenWithinDate ==
    ASSUME NEW e \in Events, NEW c \in Coaches, NEW m \in Int, NEW date \in Int, NEW minute \in Int,
           date = LocalTime(c, m).date, minute = LocalTime(c, m).minute,
           NEW E, E \subseteq Exceptions[c], \A x \in Exceptions[c] : x.date = date => x \in E,
           NEW from \in Int, from \in Clock, NEW to \in Int, to \in Clock,
           from <= minute, minute < to \/ to = LastMinute,
           DateAdmits(HoursFor(e, c), E, date, from, to)
    PROVE  OpenAt(e, c, m)
<1> DEFINE today == {x \in Exceptions[c] : x.date = date}
           granted == {x \in today : ~x.blocked}
<1>1. {x \in E : x.date = date} = today
      OBVIOUS
<1>2. minute \in Clock
      BY LocalTimeExact
<1>3. ASSUME NEW x \in today \ granted
      PROVE  x.from # Null /\ minute \notin x.from..x.to - 1
  <2>1. ~Clashes(x, from, to)
        BY <1>1, <1>3 DEF DateAdmits
  <2>2. x.from # Null /\ x.from \in Clock /\ x.to \in Clock
        BY <2>1, ExceptionType DEF Clashes
  <2> QED BY <1>2, <2>1, <2>2, ClockType DEF Clashes, LastMinute, Day
<1>4. ASSUME NEW w, w.from \in Clock, w.to \in Clock, from >= w.from, to <= w.to
      PROVE  Covers(w, minute)
  <2> QED BY <1>2, <1>4, ClockType DEF Covers, LastMinute, Day
<1>5. CASE granted # {}
  <2>1. PICK x \in granted : from >= x.from /\ to <= x.to
        BY <1>1, <1>5 DEF DateAdmits
  <2>2. x.from \in Clock /\ x.to \in Clock
        BY <2>1, ExceptionType
  <2>3. Covers(x, minute)
        BY <1>4, <2>1, <2>2
  <2> QED BY <1>3, <1>5, <2>3 DEF OpenAt
<1>6. CASE granted = {}
  <2>1. PICK w \in HoursFor(e, c) : w.weekday = date % 7 /\ from >= w.from /\ to <= w.to
        BY <1>1, <1>6 DEF DateAdmits
  <2>2. w.from \in Clock /\ w.to \in Clock
        BY AvailabilityAssumption DEF HoursFor, Window
  <2>3. Covers(w, minute)
        BY <1>4, <2>1, <2>2
  <2> QED BY <1>3, <1>6, <2>1, <2>3 DEF OpenAt
<1> QED BY <1>5, <1>6

\* The exceptions fetched around a session are all those of the dates it touches.
LEMMA AllFetched ==
    ASSUME NEW c \in Coaches, NEW t \in Int, NEW u \in Int, NEW m \in Int, t <= m, m <= u,
           NEW x \in Exceptions[c], x.date = LocalTime(c, m).date,
           NEW from \in Int, NEW to \in Int, from <= t - 2 * Day, u + 2 * Day <= to
    PROVE  x \in ExceptionsBetween(c, from, to)
<1> DEFINE here == LocalTime(c, m)
<1>1. /\ here.date \in Int /\ here.minute \in Int /\ 0 <= here.minute /\ here.minute < 1440
      /\ (1440 * here.date) + here.minute = m + Zone[c]
      /\ Zone[c] \in Int /\ 0 - 1440 < Zone[c] /\ Zone[c] < 1440
      BY LocalTimeExact
<1>2. from <= t - 2880 /\ u + 2880 <= to
      BY DEF Day
<1> HIDE DEF here
<1>3. from <= here.date * 1440 /\ here.date * 1440 <= to /\ here.date * 1440 \in Int
      BY <1>1, <1>2
<1> QED BY <1>3 DEF ExceptionsBetween, Day, here

\* The promise of the calendar check: an admitted session of at most a day lies in the coach's hours
\* minute by minute, on both sides of midnight, whatever the zone, the hours and the exceptions.
LEMMA AdmittedIsOpen ==
    ASSUME NEW e \in Events, ~Fixed(e), NEW c \in Coaches, NEW t \in Nat,
           Event[e].duration <= Day, BookingAdmits(e, c, t)
    PROVE  OpenThroughout(e, c, t)
<1> DEFINE u == End(e, t)
           E == ExceptionsBetween(c, t - 2 * Day, u + 2 * Day)
           sd == LocalTime(c, t).date
           sm == LocalTime(c, t).minute
           xd == LocalTime(c, u).date
           xm == LocalTime(c, u).minute
<1>1. u \in Int /\ t < u /\ u <= t + 1440
      BY DataAssumption DEF End, EventConfig, Day
<1> SUFFICES ASSUME NEW m \in Int, t <= m, m < u PROVE OpenAt(e, c, m)
    BY <1>1 DEF OpenThroughout
<1> HIDE DEF u
<1> DEFINE hd == LocalTime(c, m).date
           hm == LocalTime(c, m).minute
<1>2. /\ m \in Int /\ t <= m /\ m < u /\ m <= t + 1440 /\ u <= m + 1440
      BY <1>1
<1>3. /\ hm \in Clock /\ sm \in Clock /\ xm \in Clock
      /\ hm \in Int /\ sm \in Int /\ xm \in Int
      /\ 0 <= hm
      /\ hd \in Int /\ sd \in Int /\ xd \in Int
      BY <1>1, <1>2, LocalTimeExact
<1>8. /\ (hd = sd /\ sm <= hm) \/ hd = sd + 1
      /\ (xd = hd /\ hm < xm) \/ xd = hd + 1
      /\ (xd = sd /\ sm <= xm) \/ xd = sd + 1
  <2>1. /\ (1440 * hd) + hm = m + Zone[c] /\ (1440 * xd) + xm = u + Zone[c]
        /\ Zone[c] \in Int
        BY <1>1, <1>2, LocalTimeExact
  <2>2. hm # xm \/ hd # xd
    <3> HIDE DEF xd, xm, hd, hm
    <3> QED BY <1>1, <1>2, <1>3, <2>1
  <2>3. /\ (hd = sd /\ sm <= hm) \/ hd = sd + 1
        /\ (xd = hd /\ hm <= xm) \/ xd = hd + 1
        /\ (xd = sd /\ sm <= xm) \/ xd = sd + 1
        BY <1>1, <1>2, TwoDates
  <2> HIDE DEF sd, sm, xd, xm, hd, hm
  <2> QED BY <1>3, <2>2, <2>3
<1>4. \A y \in Exceptions[c] : y.date = hd => y \in E
  <2>1. t - 2 * Day \in Int /\ u + 2 * Day \in Int
        BY <1>1 DEF Day
  <2> QED BY <1>1, <1>2, <2>1, AllFetched
<1>5. E \subseteq Exceptions[c]
      BY DEF ExceptionsBetween
<1>6. CASE sd = xd
  <2>1. DateAdmits(HoursFor(e, c), E, sd, sm, xm)
        BY <1>6 DEF BookingAdmits, CalendarAdmits, u
  <2>2. hd = sd /\ sm <= hm /\ hm < xm
    <3> HIDE DEF sd, sm, xd, xm, hd, hm
    <3> QED BY <1>3, <1>6, <1>8
  <2>3. hd = LocalTime(c, m).date /\ hm = LocalTime(c, m).minute /\ DateAdmits(HoursFor(e, c), E, hd, sm, xm)
        BY <2>1, <2>2
  <2> HIDE DEF sd, sm, xd, xm, hd, hm, E
  <2> QED BY <1>2, <1>3, <1>4, <1>5, <2>1, <2>2, <2>3, OpenWithinDate
<1>7. CASE sd # xd
  <2>1. xd = sd + 1
        BY <1>7, <1>8
  <2>2. /\ DateAdmits(HoursFor(e, c), E, sd, sm, LastMinute)
        /\ DateAdmits(HoursFor(e, c), E, sd + 1, 0, xm)
        BY <1>7 DEF BookingAdmits, CalendarAdmits, AcrossMidnightAdmits, u
  <2>3. 0 \in Clock /\ LastMinute \in Clock /\ 0 \in Int /\ LastMinute \in Int
        BY ClockType DEF LastMinute, Day
  <2>4. CASE hd = sd
    <3>1. sm <= hm
      <4> HIDE DEF sd, sm, xd, xm, hd, hm
      <4> QED BY <1>3, <1>8, <2>4
    <3>2. /\ hd = LocalTime(c, m).date /\ hm = LocalTime(c, m).minute
          /\ DateAdmits(HoursFor(e, c), E, hd, sm, LastMinute)
          BY <2>2, <2>4
    <3> HIDE DEF sd, sm, xd, xm, hd, hm, E
    <3> QED BY <1>2, <1>3, <1>4, <1>5, <2>2, <2>3, <2>4, <3>1, <3>2, OpenWithinDate
  <2>5. CASE hd # sd
    <3>1. hd = sd + 1
          BY <1>8, <2>5
    <3>2. 0 <= hm /\ hm < xm
      <4> HIDE DEF sd, sm, xd, xm, hd, hm
      <4> QED BY <1>3, <1>8, <2>1, <3>1
    <3>3. hd = LocalTime(c, m).date /\ hm = LocalTime(c, m).minute /\ DateAdmits(HoursFor(e, c), E, hd, 0, xm)
          BY <2>2, <3>1
    <3> HIDE DEF sd, sm, xd, xm, hd, hm, E
    <3> QED BY <1>2, <1>3, <1>4, <1>5, <2>2, <2>3, <3>1, <3>2, <3>3, OpenWithinDate
  <2> QED BY <2>4, <2>5
<1> QED BY <1>6, <1>7

\* A shorter part of a date is open if a longer one is.
LEMMA ShorterAdmits ==
    ASSUME NEW c, NEW date, NEW hours, NEW E, NEW F, NEW from, NEW to, NEW end,
           c \in Coaches, \A w \in hours : w.to \in Clock,
           E \subseteq Exceptions[c], \A x \in Exceptions[c] : x.date = date => x \in E,
           F \subseteq Exceptions[c], \A x \in Exceptions[c] : x.date = date => x \in F,
           from \in Clock, to \in Clock, end \in Clock, end <= to,
           DateAdmits(hours, E, date, from, to)
    PROVE  DateAdmits(hours, F, date, from, end)
<1> DEFINE today == {x \in F : x.date = date}
           granted == {x \in today : ~x.blocked}
<1>1. {x \in E : x.date = date} = today
      OBVIOUS
<1>2. ASSUME NEW x \in today \ granted PROVE ~Clashes(x, from, end)
  <2>1. ~Clashes(x, from, to)
        BY <1>1, <1>2 DEF DateAdmits
  <2>2. x.from # Null /\ x.from \in Clock /\ x.to \in Clock
        BY <2>1, ExceptionType DEF Clashes
  <2> QED BY <2>1, <2>2, ClockType DEF Clashes
<1>3. CASE granted # {}
  <2>1. PICK x \in granted : from >= x.from /\ to <= x.to
        BY <1>1, <1>3 DEF DateAdmits
  <2>2. x.to \in Clock
        BY <2>1, ExceptionType
  <2>3. end <= x.to
        BY <2>1, <2>2, ClockType
  <2> QED BY <1>2, <1>3, <2>1, <2>3 DEF DateAdmits
<1>4. CASE granted = {}
  <2>1. PICK w \in hours : w.weekday = date % 7 /\ from >= w.from /\ to <= w.to
        BY <1>1, <1>4 DEF DateAdmits
  <2>2. end <= w.to
        BY <2>1, ClockType
  <2> QED BY <1>2, <1>4, <2>1, <2>2 DEF DateAdmits
<1> QED BY <1>3, <1>4

\* What the listing finds open a booking finds open: it asks for less time, and the exceptions of
\* all dates that matter have been fetched by both.
LEMMA ShownIsAdmitted ==
    ASSUME NEW e \in Events, NEW c \in Coaches, NEW t \in Nat, NEW range \in Ranges,
           Event[e].duration + Event[e].buffer <= Day,
           Fixed(e) \/ Generous(range, e, t),
           Fixed(e) /\ LocalTime(c, EffectiveEnd(e, t)).date # LocalTime(c, t).date
             => LocalTime(c, End(e, t)).date # LocalTime(c, t).date,
           CalendarShows(e, c, range, t)
    PROVE  BookingAdmits(e, c, t)
<1> DEFINE u == End(e, t)
           v == EffectiveEnd(e, t)
           from == IF Fixed(e) THEN t - 2 * Day ELSE range.from
           to == IF Fixed(e) THEN v + 2 * Day ELSE EffectiveEnd(e, range.to)
           E == ExceptionsBetween(c, from, to)
           F == ExceptionsBetween(c, t - 2 * Day, u + 2 * Day)
           hours == IF Fixed(e) THEN [weekday: 0..6, from: {0}, to: {LastMinute}] ELSE HoursFor(e, c)
           sd == LocalTime(c, t).date
           sm == LocalTime(c, t).minute
           xd == LocalTime(c, u).date
           xm == LocalTime(c, u).minute
           yd == LocalTime(c, v).date
           ym == LocalTime(c, v).minute
<1>1. u \in Int /\ v \in Int /\ t <= u /\ u <= v /\ v <= t + 1440 /\ t \in Int
      BY DataAssumption DEF End, EffectiveEnd, EventConfig, Day
<1>2. from \in Int /\ to \in Int /\ from <= t - 2 * Day /\ v + 2 * Day <= to
  <2>1. CASE Fixed(e)
        BY <1>1, <2>1 DEF Day
  <2>2. CASE ~Fixed(e)
    <3>1. range.from \in Nat /\ range.to \in Nat
          BY ListingAssumption
    <3>2. Event[e].duration \in Nat /\ Event[e].buffer \in Nat
          BY DataAssumption DEF EventConfig
    <3>3. range.from + 2 * Day <= t /\ v + 2 * Day <= range.to
          BY <2>2 DEF Generous
    <3> HIDE DEF v
    <3> QED BY <1>1, <2>2, <3>1, <3>2, <3>3 DEF EffectiveEnd, End, Day
  <2> QED BY <2>1, <2>2
<1>3. \A w \in hours : w.to \in Clock
  <2>1. LastMinute \in Clock
        BY ClockType DEF LastMinute, Day
  <2> QED BY <2>1, AvailabilityAssumption DEF HoursFor, Window
<1>4. E \subseteq Exceptions[c] /\ F \subseteq Exceptions[c]
      BY DEF ExceptionsBetween
<1>5. ASSUME NEW m \in Int, t <= m, m <= v
      PROVE  \A x \in Exceptions[c] : x.date = LocalTime(c, m).date => x \in E
      BY <1>1, <1>2, <1>5, AllFetched
<1>6. ASSUME NEW m \in Int, t <= m, m <= u
      PROVE  \A x \in Exceptions[c] : x.date = LocalTime(c, m).date => x \in F
  <2>1. t - 2 * Day \in Int /\ u + 2 * Day \in Int
        BY <1>1 DEF Day
  <2> QED BY <1>1, <1>6, <2>1, AllFetched
<1>7. /\ sm \in Clock /\ xm \in Clock /\ ym \in Clock
      /\ (xd = sd /\ sm <= xm) \/ xd = sd + 1
      /\ (yd = sd /\ sm <= ym) \/ yd = sd + 1
      /\ (yd = xd /\ xm <= ym) \/ yd = xd + 1
      /\ sd \in Int /\ xd \in Int /\ yd \in Int
  <2>1. u <= t + 1440 /\ v <= u + 1440
        BY <1>1
  <2> HIDE DEF u, v
  <2>2. ((xd = sd /\ sm <= xm) \/ xd = sd + 1) /\ ((yd = sd /\ sm <= ym) \/ yd = sd + 1)
        BY <1>1, <2>1, TwoDates
  <2>3. (yd = xd /\ xm <= ym) \/ yd = xd + 1
        BY <1>1, <2>1, TwoDates
  <2>4. sm \in Clock /\ xm \in Clock /\ ym \in Clock /\ sd \in Int /\ xd \in Int /\ yd \in Int
        BY <1>1, LocalTimeExact
  <2> QED BY <2>2, <2>3, <2>4
<1>8. /\ sd = yd => DateAdmits(hours, E, sd, sm, ym)
      /\ sd # yd /\ ~Fixed(e) => /\ DateAdmits(hours, E, sd, sm, LastMinute)
                                 /\ DateAdmits(hours, E, sd + 1, 0, ym)
      BY DEF CalendarShows, CalendarAdmits, ListedExceptions, AcrossMidnightAdmits
<1>9. SUFFICES /\ sd = xd => DateAdmits(hours, F, sd, sm, xm)
               /\ sd # xd /\ ~Fixed(e) => /\ DateAdmits(hours, F, sd, sm, LastMinute)
                                          /\ DateAdmits(hours, F, sd + 1, 0, xm)
      BY DEF BookingAdmits, CalendarAdmits, AcrossMidnightAdmits
<1>10. \A x \in Exceptions[c] : x.date = sd => x \in E /\ x \in F
      BY <1>1, <1>5, <1>6
<1>11. \A x \in Exceptions[c] : x.date = xd => x \in E /\ x \in F
      BY <1>1, <1>5, <1>6
<1>12. Fixed(e) /\ yd # sd => xd # sd
      OBVIOUS
<1>13. 0 \in Clock /\ LastMinute \in Clock /\ \A m \in Clock : m <= LastMinute
      BY ClockType DEF LastMinute, Day
<1>14. LastMinute <= LastMinute
      BY DEF LastMinute, Day
<1> HIDE DEF u, v, E, F, hours, sd, sm, xd, xm, yd, ym
<1>15. CASE xd = sd
  <2>1. CASE yd = sd
    <3>1. xm <= ym
          BY <1>7, <1>15, <2>1
    <3> QED BY <1>3, <1>4, <1>7, <1>8, <1>10, <1>15, <2>1, <3>1, ShorterAdmits
  <2>2. CASE yd # sd
        BY <1>3, <1>4, <1>7, <1>8, <1>10, <1>12, <1>13, <1>15, <2>2, ShorterAdmits
  <2> QED BY <2>1, <2>2
<1>16. CASE xd # sd
  <2>1. xd = sd + 1 /\ yd = sd + 1 /\ xm <= ym /\ yd # sd
        BY <1>7, <1>16
  <2>2. ASSUME ~Fixed(e) PROVE DateAdmits(hours, F, sd, sm, LastMinute)
        BY <1>3, <1>4, <1>7, <1>8, <1>10, <1>13, <1>14, <2>1, <2>2, ShorterAdmits
  <2>3. ASSUME ~Fixed(e) PROVE DateAdmits(hours, F, xd, 0, xm)
    <3>1. DateAdmits(hours, E, xd, 0, ym)
          BY <1>8, <2>1, <2>3
    <3> QED BY <1>3, <1>4, <1>7, <1>11, <1>13, <2>1, <3>1, ShorterAdmits
  <2> QED BY <1>16, <2>1, <2>2, <2>3
<1> QED BY <1>15, <1>16

-----------------------------------------------------------------------------
(* What is shown can be booked *)

\* The sessions of a coach can be counted.
LEMMA LoadType == \A c : Load(c) \in Nat
<1>1. \A P \in SUBSET Requests : Cardinality(P) \in Nat
      BY DataAssumption, FS_Subset, FS_CardinalityType
<1>2. \A P \in SUBSET Slots : Cardinality(P) \in Nat
      BY DataAssumption, FS_Subset, FS_CardinalityType
<1> QED BY <1>1, <1>2 DEF Load

\* Among free coaches one is next: the rotation never ends in a tie.
LEMMA SomeoneNext ==
    ASSUME TypeOK, NEW e \in Events, NEW free \in SUBSET Pool(e), free # {}
    PROVE  \E c \in free : \A d \in free \ {c} : RunsBefore(e, c, d)
<1> DEFINE rank(c) == Rank(e, c, routing[e])
           loads == {Load(c) : c \in free}
<1>1. routing[e] \in Nat
      BY DEF TypeOK
<1>2. \A c, d \in Pool(e) : rank(c) \in Int /\ (rank(c) = rank(d) => c = d)
      BY <1>1, RankDistinct
<1>3. \A c \in Pool(e) : rank(c) \in Nat
  <2>1. \A x \in Pool(e) : Order[e][x] \in Nat
        BY SchemaAssumption DEF Pool
  <2>2. MaxOrder(e) \in {Order[e][x] : x \in Pool(e)}
    <3>1. \E m \in {Order[e][x] : x \in Pool(e)} : \A o \in {Order[e][x] : x \in Pool(e)} : o <= m
          BY PoolAssumption
    <3> QED BY <3>1 DEF MaxOrder
  <2> QED BY <2>1, <2>2 DEF Rank
<1>4. PICK n \in loads : \A m \in loads : n <= m
  <2>1. loads \subseteq Nat /\ loads # {}
        BY LoadType
  <2> HIDE DEF loads
  <2> QED BY <2>1, LeastNatural
<1> DEFINE least == {c \in free : Load(c) = n}
           ranks == {rank(c) : c \in least}
<1>5. PICK k \in ranks : \A m \in ranks : k <= m
  <2>1. ranks \subseteq Nat /\ ranks # {}
        BY <1>3, <1>4
  <2> HIDE DEF ranks
  <2> QED BY <2>1, LeastNatural
<1>6. PICK c \in least : rank(c) = k
      BY <1>5
<1>7. ASSUME NEW d \in free \ {c} PROVE RunsBefore(e, c, d)
  <2>1. CASE d \in least
    <3>1. rank(c) <= rank(d) /\ rank(c) # rank(d) /\ rank(c) \in Int /\ rank(d) \in Int
          BY <1>2, <1>5, <1>6, <1>7, <2>1
    <3> HIDE DEF rank
    <3>2. rank(c) < rank(d)
          BY <3>1
    <3> QED BY <1>6, <2>1, <3>2 DEF RunsBefore, rank
  <2>2. CASE d \notin least
    <3>1. Load(c) <= Load(d) /\ Load(c) # Load(d)
          BY <1>4, <1>6, <1>7, <2>2
    <3>2. Load(c) < Load(d)
          BY <3>1, LoadType
    <3> QED BY <3>2 DEF RunsBefore
  <2> QED BY <2>1, <2>2
<1> QED BY <1>6, <1>7

\* The first coach of a pool that is not empty is in it.
LEMMA FirstCoachInPool ==
    ASSUME NEW e \in Events, Pool(e) # {}
    PROVE  FirstCoach(e) \in Pool(e)
<1> DEFINE orders == {Order[e][c] : c \in Pool(e)}
<1>1. orders \subseteq Nat /\ orders # {}
      BY SchemaAssumption DEF Pool
<1>2. PICK n \in orders : \A m \in orders : n <= m
  <2> HIDE DEF orders
  <2> QED BY <1>1, LeastNatural
<1>3. \E c \in Pool(e) : \A d \in Pool(e) : Order[e][c] <= Order[e][d]
      BY <1>2
<1> QED BY <1>3 DEF FirstCoach

\* Who is booked on an event with slots is on one of them.
FixedOnSlots == \A b \in Requests : Exists(b) /\ Fixed(bookings[b].event) => bookings[b].slot # Null

\* A slot that is a candidate is the one that a booking finds.
LEMMA CandidateMatches ==
    ASSUME SlotsOK, NEW e \in Events, Fixed(e), NEW t \in Starts, NEW s \in Slots \cup {Null},
           Candidate(e, t, s)
    PROVE  s \in Slots /\ MatchingSlot(e, t) = s
<1> DEFINE found == {x \in Slots : SlotEvent[x] = e /\ slots[x].start = t /\ slots[x].active}
<1>1. s \in found
      BY NullAssumption DEF Candidate
<1>2. \A x \in found : x = s
      BY <1>1, SchemaAssumption DEF SlotsOK
<1>3. found # {} /\ (CHOOSE x \in found : TRUE) = s
      BY <1>1, <1>2
<1> QED BY <1>1, <1>3, Zenon DEF MatchingSlot

\* The seats counted by slot are those counted by event and start.
LEMMA SeatsAgree ==
    ASSUME TypeOK, SlotsOK, FixedOnSlots, NEW s \in Slots, Fixed(SlotEvent[s]), SeatsShown(s)
    PROVE  SeatAvailable(SlotEvent[s], slots[s].start, s)
<1> DEFINE e == SlotEvent[s]
           onSlot == {b \in Requests : Counted(b) /\ bookings[b].slot = s}
           atStart == {b \in Requests : Counted(b) /\ bookings[b].event = e
                                        /\ bookings[b].start = slots[s].start}
<1>1. atStart \subseteq onSlot
  <2> SUFFICES ASSUME NEW b \in atStart PROVE bookings[b].slot = s
      OBVIOUS
  <2>1. Exists(b) /\ b \in Requests
        BY DEF Counted, Exists
  <2>2. bookings[b].slot \in Slots
        BY <2>1 DEF FixedOnSlots, TypeOK, Booking
  <2>3. /\ SlotEvent[bookings[b].slot] = e
        /\ InitialSlots[bookings[b].slot].start = InitialSlots[s].start
        BY <2>1, <2>2, NullAssumption DEF SlotsOK
  <2> QED BY <2>2, <2>3, SchemaAssumption
<1>2. Cardinality(atStart) \in Nat /\ Cardinality(onSlot) \in Nat
      /\ Cardinality(atStart) <= Cardinality(onSlot)
      BY <1>1, Smaller
<1>3. CASE SeatLimit(s) = Null
      BY <1>3 DEF SeatAvailable
<1>4. CASE SeatLimit(s) # Null
  <2>1. SeatLimit(s) \in Nat
        BY <1>4, SeatLimitType
  <2>2. Cardinality(onSlot) < SeatLimit(s)
        BY <1>4 DEF SeatsShown
  <2>3. Cardinality(atStart) < SeatLimit(s)
        BY <1>2, <2>1, <2>2
  <2> QED BY <2>3 DEF SeatAvailable, ParticipantsAt
<1> QED BY <1>3, <1>4

\* The hypotheses of ListingSafety.  Neither a session nor the buffer after it is unbounded in the
\* schema, but a session of more than a day is checked on its first and last date only.
DaylongSessions == \A e \in Events : Event[e].duration + Event[e].buffer <= Day

\* No session on a slot ends on the date it starts on, for a coach of its event, while its buffer
\* ends on the next one.  Then the listing would not look at the exceptions, and the booking would.
BuffersEndToday ==
    \A s \in Slots : Fixed(SlotEvent[s]) => \A c \in Pool(SlotEvent[s]) :
        LET date(t) == LocalTime(c, t).date
            start == InitialSlots[s].start
        IN  date(EffectiveEnd(SlotEvent[s], start)) # date(start)
              => date(End(SlotEvent[s], start)) # date(start)

\* Who is shown to be free is free to a booking.
LEMMA ShownIsFree ==
    ASSUME DaylongSessions, BuffersEndToday, TypeOK, RowsOK, SlotsOK, NEW e \in Events, NEW t \in Starts,
           NEW s \in Slots \cup {Null}, Candidate(e, t, s),
           Fixed(e) => NobodyOffSlots,
           NEW range \in Ranges, Fixed(e) \/ Generous(range, e, t),
           NEW c \in Pool(e), ShownFree(c, e, t, s, range)
    PROVE  c \in FreeCoaches(e, t, MatchingSlot(e, t), Null)
<1>1. c \in Coaches /\ t \in Nat
      BY SchemaAssumption, DataAssumption DEF Pool
<1>2. t \in Calendar[e][c]
  <2>1. CalendarShows(e, c, range, t)
    <3>1. PICK e1 \in Events, c1 \in Coaches, range1 \in Ranges :
             \E x \in Starts : CalendarShows(e1, c1, range1, x) /\ <<e, c, range, t>> = <<e1, c1, range1, x>>
          BY DEF ShownFree, ListedSessions
    <3> QED BY <3>1
  <2>2. Fixed(e) /\ LocalTime(c, EffectiveEnd(e, t)).date # LocalTime(c, t).date
          => LocalTime(c, End(e, t)).date # LocalTime(c, t).date
    <3> SUFFICES ASSUME Fixed(e)
                 PROVE  LocalTime(c, EffectiveEnd(e, t)).date # LocalTime(c, t).date
                          => LocalTime(c, End(e, t)).date # LocalTime(c, t).date
        OBVIOUS
    <3>1. s \in Slots /\ SlotEvent[s] = e /\ InitialSlots[s].start = t
          BY NullAssumption DEF Candidate, SlotsOK
    <3> QED BY <3>1 DEF BuffersEndToday
  <2>3. BookingAdmits(e, c, t)
        BY <1>1, <2>1, <2>2, ShownIsAdmitted DEF DaylongSessions
  <2> QED BY <1>1, <2>3, CalendarAssumption
<1>3. Fixed(e) => MatchingSlot(e, t) = s
      BY CandidateMatches
<1>4. ASSUME NEW e0 \in Events, NEW t0 \in Nat, Blocks(e0, t0, e, t)
      PROVE  InTheWay(e0, t0, e, t)
  <2>1. /\ t0 < End(e, t)
        /\ End(e0, t0) > t - Lookback
        /\ t < EffectiveEnd(e0, t0)
        BY <1>4 DEF Blocks, EffectiveEnd
  <2>2. End(e, t) \in Nat /\ Event[e].buffer \in Nat
        BY <1>1, DataAssumption DEF End, EventConfig
  <2>3. t0 < EffectiveEnd(e, t)
        BY <1>4, <2>1, <2>2 DEF EffectiveEnd
  <2> QED BY <2>1, <2>3 DEF InTheWay
<1>5. ~BookingConflict(c, e, t, MatchingSlot(e, t), Null)
  <2> SUFFICES ASSUME NEW x \in Requests, Active(x), c \in Staff(x),
                      ~(Fixed(e) /\ bookings[x].slot = MatchingSlot(e, t)),
                      Blocks(bookings[x].event, bookings[x].start, e, t)
               PROVE  FALSE
      BY DEF BookingConflict
  <2>1. bookings[x].event \in Events /\ bookings[x].start \in Nat
        BY DataAssumption DEF RowsOK, Exists, Active, ActiveStatuses
  <2>2. InTheWay(bookings[x].event, bookings[x].start, e, t)
        BY <1>4, <2>1
  <2>3. Fixed(e) => bookings[x].slot \notin {s, Null}
        BY <1>3 DEF NobodyOffSlots
  <2> QED BY <2>2, <2>3 DEF ShownFree, BookingInTheWay
<1>6. ~SlotConflict(c, e, t, MatchingSlot(e, t))
  <2> SUFFICES ASSUME NEW x \in Slots, slots[x].coach = c, slots[x].active, ~slots[x].cancelled,
                      ~(Fixed(e) /\ x = MatchingSlot(e, t)),
                      Blocks(SlotEvent[x], slots[x].start, e, t)
               PROVE  FALSE
      BY DEF SlotConflict
  <2>1. SlotEvent[x] \in Events /\ slots[x].start \in Nat
        BY DataAssumption DEF TypeOK, Slot
  <2>2. InTheWay(SlotEvent[x], slots[x].start, e, t)
        BY <1>4, <2>1
  <2> QED BY <1>3, <2>2 DEF ShownFree, SlotInTheWay
<1> QED BY <1>2, <1>5, <1>6 DEF FreeCoaches

\* One free coach is enough for an event with one host.
LEMMA FreeIsSelected ==
    ASSUME TypeOK, NEW e \in Events, OneHost(e), NEW t, NEW s,
           NEW preferred \in Pool(e) \cup {Null}, NEW free \in SUBSET Pool(e), NEW c \in free,
           Event[e].strategy = "DIRECT" => c = IF preferred = Null THEN FirstCoach(e) ELSE preferred
    PROVE  SingleHost(e, free, preferred) # {}
<1>1. Null \notin free
      BY NullAssumption, SchemaAssumption DEF Pool
<1>2. CASE Event[e].strategy = "DIRECT" /\ preferred = Null
      BY <1>1, <1>2 DEF SingleHost, StrategyLead, OneHost
<1>3. CASE Event[e].strategy = "DIRECT" /\ preferred # Null
      BY <1>3 DEF SingleHost
<1>4. CASE Event[e].strategy # "DIRECT"
  <2>1. Event[e].strategy = "ROUND_ROBIN"
        BY <1>4, DataAssumption DEF EventConfig
  <2>2. \E x \in free : \A d \in free \ {x} : RunsBefore(e, x, d)
        BY SomeoneNext
  <2>3. StrategyLead(e, free) # {}
        BY <2>1, <2>2 DEF StrategyLead
  <2> QED BY <2>1, <2>3 DEF SingleHost
<1> QED BY <1>2, <1>3, <1>4

\* What is offered is accepted.
LEMMA OfferedAccepted ==
    ASSUME DaylongSessions, BuffersEndToday, TypeOK, RowsOK, SlotsOK, FixedOnSlots
    PROVE  OfferedIsBookable
<1> SUFFICES ASSUME NEW e \in Events, OneHost(e), NEW t \in Starts, NEW s \in Slots \cup {Null},
                    Candidate(e, t, s), Fixed(e) => NobodyOffSlots,
                    NEW preferred \in Pool(e) \cup {Null}, NEW range \in Ranges,
                    Fixed(e) \/ Generous(range, e, t), Offered(e, t, s, preferred, range)
             PROVE  Accepted(e, t, preferred)
    BY DEF OfferedIsBookable
<1> DEFINE m == MatchingSlot(e, t)
           free == FreeCoaches(e, t, m, Null)
<1>1. Fixed(e) => s \in Slots /\ m = s /\ SlotEvent[s] = e /\ slots[s].start = t
      BY CandidateMatches DEF Candidate
<1>2. Bookable(e, t)
      BY <1>1, NullAssumption DEF Offered, Bookable
<1>3. Fixed(e) => SeatAvailable(e, t, m)
      BY <1>1, SeatsAgree, NullAssumption DEF Offered
<1>4. PICK c \in ShownCoaches(e, s, preferred) : ShownFree(c, e, t, s, range)
      BY DEF Offered
<1>5. CASE Event[e].anonymous
      BY <1>5, <1>2, <1>3 DEF Accepted, Selections
<1>6. CASE Group(e) /\ SessionTeams(e, t, m) # {}
      BY <1>6, <1>2, <1>3 DEF Accepted, Selections
<1>7. CASE m # Null /\ slots[m].coach # Null
      BY <1>7, <1>2, <1>3 DEF Accepted, Selections, OneHost
<1>8. CASE ~(m # Null /\ slots[m].coach # Null)
  <2>1. ~(s # Null /\ slots[s].coach # Null)
        BY <1>1, <1>8 DEF Candidate
  <2>2. /\ c \in Pool(e)
        /\ Event[e].strategy = "DIRECT" => c = IF preferred = Null THEN FirstCoach(e) ELSE preferred
        BY <2>1, <1>4, FirstCoachInPool DEF ShownCoaches
  <2>3. c \in free
        BY <1>4, <2>2, ShownIsFree
  <2>4. SingleHost(e, free, preferred) # {}
    <3>1. free \in SUBSET Pool(e)
          BY DEF FreeCoaches
    <3> HIDE DEF free
    <3> QED BY <2>2, <2>3, <3>1, FreeIsSelected
  <2> QED BY <1>2, <1>3, <1>8, <2>4 DEF Accepted, Selections, OneHost
<1> QED BY <1>5, <1>6, <1>7, <1>8

\* Every step keeps who is booked on an event with slots on one of them.
LEMMA FixedOnSlotsStep ==
    ASSUME WellFormed, SlotsOK, FixedOnSlots, [Next]_vars
    PROVE  FixedOnSlots'
<1> USE DEF WellFormed
<1> SUFFICES ASSUME NEW b \in Requests, Exists(b)', Fixed(bookings'[b].event)
             PROVE  bookings'[b].slot # Null
    BY DEF FixedOnSlots, Fixed
<1>1. CASE UNCHANGED bookings
      BY <1>1 DEF FixedOnSlots, Exists
<1>2. ASSUME NEW r \in Requests, WriteBooking(r) PROVE bookings'[b].slot # Null
  <2>1. CASE b = tx[r].target
    <3>1. bookings'[b].event = tx[r].event /\ bookings'[b].slot = tx[r].slot
          BY <1>2, <2>1, Written
    <3> QED BY <1>2, <3>1 DEF WriteBooking, SlotsOK, InTransaction
  <2>2. CASE b # tx[r].target
    <3>1. bookings'[b] = bookings[b]
          BY <1>2, <2>2, Written
    <3> QED BY <3>1 DEF FixedOnSlots, Exists
  <2> QED BY <2>1, <2>2
<1>3. ASSUME NEW r \in Requests,
             WriteCancellation(r) \/ PatchStatus(r) \/ WriteSlotCancellation(r)
      PROVE  bookings'[b].slot # Null
      BY <1>3, StatusOnly DEF FixedOnSlots, Exists
<1> QED BY <1>1, <1>2, <1>3, Writers

\* What students are shown can be booked, in every state of every system where no session lasts
\* more than a day and no buffer alone reaches into the next one.
THEOREM ListingSafety == ASSUME DaylongSessions, BuffersEndToday PROVE Spec => []OfferedIsBookable
<1> DEFINE Inv == SlotsOK /\ FixedOnSlots
<1>1. Init => Inv
  <2> SUFFICES ASSUME Init PROVE Inv
      OBVIOUS
  <2>1. \A b \in Requests : ~Exists(b)
        BY DEF Init, Exists, VacantBooking
  <2> QED BY <2>1 DEF Init, SlotsOK, FixedOnSlots, InTransaction
<1>2. WellFormed /\ Inv /\ [Next]_vars => Inv'
      BY SlotsStep, FixedOnSlotsStep DEF WellFormed
<1>3. WellFormed /\ Inv => OfferedIsBookable
      BY OfferedAccepted DEF WellFormed
<1> QED BY <1>1, <1>2, <1>3, WellFormedInvariant, PTL DEF Spec

-----------------------------------------------------------------------------
(* Who is booked is booked in working hours *)

\* All these coaches have the session in their calendars.
InCalendars(e, t, staff) == ~Fixed(e) => \A c \in staff \ {Null} : t \in Calendar[e][c]

\* Every session, written or about to be, is in the calendars of its staff.
CalendarKept ==
    /\ \A b \in Requests :
         Exists(b) => InCalendars(bookings[b].event, bookings[b].start, Staff(b))
    /\ \A r \in Requests :
         pc[r] \in InTransaction \ {"locking"}
           => InCalendars(tx[r].event, tx[r].start, Picked(tx[r]))

\* Every step keeps the sessions in the calendars.
LEMMA CalendarStep ==
    ASSUME NoSwitchedEvent, WellFormed, SlotsOK, CalendarKept, [Next]_vars
    PROVE  CalendarKept'
<1> USE DEF WellFormed
<1>1. ASSUME NEW b \in Requests, Exists(b)'
      PROVE  InCalendars(bookings'[b].event, bookings'[b].start, Staff(b)')
  <2>1. CASE UNCHANGED bookings
        BY <1>1, <2>1 DEF CalendarKept, Exists, Staff
  <2>2. ASSUME NEW r \in Requests, WriteBooking(r)
        PROVE  InCalendars(bookings'[b].event, bookings'[b].start, Staff(b)')
    <3>1. InCalendars(tx[r].event, tx[r].start, Picked(tx[r]))
          BY <2>2 DEF WriteBooking, CalendarKept, InTransaction
    <3>2. CASE b = tx[r].target
          BY <2>2, <3>1, <3>2, Written, StaffWritten DEF Staff, Picked
    <3>3. CASE b # tx[r].target
      <4>1. bookings'[b] = bookings[b]
            BY <2>2, <3>3, Written
      <4> QED BY <1>1, <4>1 DEF CalendarKept, Exists, Staff
    <3> QED BY <3>2, <3>3
  <2>3. ASSUME NEW r \in Requests,
               WriteCancellation(r) \/ PatchStatus(r) \/ WriteSlotCancellation(r)
        PROVE  InCalendars(bookings'[b].event, bookings'[b].start, Staff(b)')
    <3>1. /\ bookings'[b].event = bookings[b].event /\ bookings'[b].start = bookings[b].start
          /\ Exists(b)
          BY <1>1, <2>3, StatusOnly DEF Exists
    <3>2. Staff(b)' = Staff(b)
          BY <2>3, StaffKept DEF Staff
    <3> QED BY <3>1, <3>2 DEF CalendarKept
  <2> QED BY <2>1, <2>2, <2>3, Writers
<1>2. ASSUME NEW r \in Requests, pc'[r] \in InTransaction \ {"locking"}
      PROVE  InCalendars(tx'[r].event, tx'[r].start, Picked(tx'[r]))
  <2>1. CASE pc'[r] = pc[r] /\ tx'[r] = tx[r]
        BY <1>2, <2>1 DEF CalendarKept
  <2>2. CASE SelectCoach(r)
    <3> DEFINE t == tx[r]
    <3>1. /\ pc'[r] # "done" /\ pc[r] \in InTransaction
          /\ tx'[r].event = t.event /\ tx'[r].start = t.start
          BY <1>2, <2>2, StayInTx DEF InTransaction
    <3>2. t.event \in Events /\ (~Fixed(t.event) => t.slot = Null)
          BY <3>1 DEF SlotsOK, NoSwitchedEvent, TypeOK, Local, HandlersOK, TxOK
    <3>3. PICK y \in Selections(t.event, t.start, t.slot, t.preferred, Excluded(t)) :
             tx'[r].coach = y.coach /\ tx'[r].coHosts = y.coHosts
          BY <2>2, <3>1, StaffSelected
    <3> SUFFICES ASSUME ~Fixed(t.event)
                 PROVE  \A c \in Picked(tx'[r]) \ {Null} : t.start \in Calendar[t.event][c]
        BY <3>1 DEF InCalendars
    <3> HIDE DEF t
    <3>4. Picked(y) \subseteq FreeCoaches(t.event, t.start, Null, Excluded(t)) \cup {Null}
          BY <3>2, <3>3, SelectsFree
    <3>5. Picked(tx'[r]) = Picked(y)
          BY <3>3 DEF Picked
    <3> QED BY <3>4, <3>5 DEF FreeCoaches
  <2>3. CASE AdvanceRouting(r) \/ LockCoach(r) \/ CheckSeats(r) \/ LockStudent(r)
    <3>1. pc'[r] # "done" /\ pc[r] \in InTransaction \ {"locking"}
          BY <1>2, <2>3 DEF AdvanceRouting, LockCoach, CheckSeats, LockStudent, InTransaction
    <3> QED BY <2>3, <3>1, StayInTx, StaffStays DEF CalendarKept, Picked
  <2>4. CASE \/ CreateBooking(r) \/ RescheduleBooking(r) \/ BookFollowUp(r)
             \/ CancelBooking(r) \/ CancelSlot(r)
        BY <1>2, <2>4, EnterTx, EnterCancellation DEF InTransaction
  <2>5. CASE \/ WriteBooking(r) \/ WriteCancellation(r) \/ WriteSlotCancellation(r)
             \/ PatchStatus(r) \/ DeactivateUser(r) \/ GiveUp(r)
        BY <1>2, <2>5, LastStep DEF InTransaction
  <2> QED BY <2>1, <2>2, <2>3, <2>4, <2>5, OneHandler DEF Receive, Serve
<1> QED BY <1>1, <1>2 DEF CalendarKept, InCalendars, Fixed

\* Sessions in the calendars lie in the hours of their staff.
LEMMA CalendarsAreHours ==
    ASSUME DaylongSessions, TypeOK, RowsOK, CalendarKept
    PROVE  BookedInsideHours
<1>1. ASSUME NEW e \in Events, ~Fixed(e), NEW c \in Coaches, NEW t \in WeekStarts,
             BookingAdmits(e, c, t)
      PROVE  <<e, c, t>> \in OpenSessions
  <2>1. t \in Nat
        BY DataAssumption DEF WeekStarts, Grid, Day
  <2>2. Event[e].duration <= Day
        BY DataAssumption DEF DaylongSessions, EventConfig, Day
  <2>3. OpenThroughout(e, c, t)
        BY <1>1, <2>1, <2>2, AdmittedIsOpen
  <2> DEFINE open(e1, c1) == {<<e1, c1, x>> : x \in {y \in WeekStarts : OpenThroughout(e1, c1, y)}}
             all == {open(e1, c1) : e1 \in Events, c1 \in Coaches}
  <2>4. <<e, c, t>> \in open(e, c)
        BY <2>3
  <2>5. OpenSessions = UNION all
        BY DEF OpenSessions
  <2> HIDE DEF open
  <2>6. open(e, c) \in all
        OBVIOUS
  <2> HIDE DEF all
  <2> QED BY <2>4, <2>5, <2>6
<1>2. AdmittedSessions \subseteq OpenSessions
      BY <1>1 DEF AdmittedSessions
<1>3. ASSUME NEW b \in Requests, Active(b), ~Fixed(bookings[b].event), NEW c \in Staff(b) \ {Null}
      PROVE  <<bookings[b].event, c, bookings[b].start>> \in OpenSessions
  <2>1. Exists(b)
        BY <1>3 DEF Exists, Active, ActiveStatuses
  <2>2. bookings[b].event \in Events /\ bookings[b].start \in Starts /\ c \in Coaches
        BY <2>1 DEF RowsOK, TypeOK, Booking, Staff
  <2>3. bookings[b].start \in Calendar[bookings[b].event][c]
        BY <1>3, <2>1 DEF CalendarKept, InCalendars
  <2>4. BookingAdmits(bookings[b].event, c, bookings[b].start)
        BY <2>2, <2>3, CalendarAssumption
  <2> QED BY <1>1, <1>3, <2>2, <2>4 DEF WeekStarts
<1> DEFINE booked == {b \in Requests : Active(b) /\ ~Fixed(bookings[b].event)}
           sessions(b) == {<<bookings[b].event, c, bookings[b].start>> : c \in Staff(b) \ {Null}}
<1>4. \A b \in booked : sessions(b) \subseteq OpenSessions
      BY <1>3
<1> HIDE DEF sessions, booked
<1>5. UNION {sessions(b) : b \in booked} \subseteq OpenSessions
      BY <1>4
<1> QED BY <1>2, <1>5 DEF BookedInsideHours, booked, sessions

\* Whoever is booked without a slot is booked within the working hours of all staff, minute by
\* minute, across midnight and time zones, as long as no session lasts more than a day and no event
\* was switched away from FIXED_SLOTS keeping slots with coaches of their own.
THEOREM HoursSafety ==
    ASSUME DaylongSessions, NoSwitchedEvent PROVE Spec => []BookedInsideHours
<1> DEFINE Inv == SlotsOK /\ CalendarKept
<1>1. Init => Inv
  <2> SUFFICES ASSUME Init PROVE Inv
      OBVIOUS
  <2>1. \A b \in Requests : ~Exists(b)
        BY DEF Init, Exists, VacantBooking
  <2> QED BY <2>1 DEF Init, SlotsOK, CalendarKept, InTransaction
<1>2. WellFormed /\ Inv /\ [Next]_vars => Inv'
      BY SlotsStep, CalendarStep DEF WellFormed
<1>3. WellFormed /\ Inv => BookedInsideHours
      BY CalendarsAreHours DEF WellFormed
<1> QED BY <1>1, <1>2, <1>3, WellFormedInvariant, PTL DEF Spec
=============================================================================
