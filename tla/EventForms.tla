----------------------------- MODULE EventForms -----------------------------
(***************************************************************************)
(* What the inputs of the event editor mean (web/src/events/model.ts):     *)
(* prices in minor units, and times on the wall clock of the event's zone. *)
(*                                                                         *)
(* An instant is in seconds, a wall time in minutes, as the inputs have no  *)
(* seconds.  A time zone is the function that gives the offset of the wall  *)
(* clock, in minutes, in every minute.  A conversion that may refuse its    *)
(* input gives the set of its results: one, or none.                       *)
(***************************************************************************)
EXTENDS Integers, Sequences, TLAPS

CONSTANTS
  None,           \* an input that is left empty
  MaxSafeInteger  \* the largest exact number, 2^53 - 1

-----------------------------------------------------------------------------
(* Prices.                                                                 *)

(* priceInput: "<major>.<two digits>".                                     *)
PriceInput(n) ==
  [major |-> n \div 100, minor |-> <<(n % 100) \div 10, n % 10>>]

(* padEnd(2, "0") of the digits after the separator.                       *)
Minor(digits) ==
  CASE Len(digits) = 0 -> 0
    [] Len(digits) = 1 -> 10 * digits[1]
    [] OTHER -> 10 * digits[1] + digits[2]

Amount(price) == price.major * 100 + Minor(price.minor)

ParsePrice(price) ==
  IF Amount(price) <= MaxSafeInteger THEN {Amount(price)} ELSE {}

-----------------------------------------------------------------------------
(* Wall times.                                                             *)

Hours(n) == 60 * n

Start(minute) == 60 * minute

(* The minute that an instant is in, and when that began.                  *)
MinuteOf(t) == t \div 60
WholeMinute(t) == Start(MinuteOf(t))

(* What the wall clock shows in a minute.                                  *)
Shown(minute, zone) == minute + zone[minute]

(* zonedInput: the seconds are dropped.                                    *)
ZonedInput(t, zone) == Shown(MinuteOf(t), zone)

Probes == {-Hours(36), -Hours(12), 0, Hours(12), Hours(36)}

Offsets(wall, zone) == {zone[wall + p] : p \in Probes}

Candidates(wall, zone) ==
  {t \in {Start(wall - o) : o \in Offsets(wall, zone)} : ZonedInput(t, zone) = wall}

ToInstant(wall, zone) ==
  {t \in Candidates(wall, zone) : Candidates(wall, zone) = {t}}

(* The minutes in which the clocks of the zone show `wall`.                *)
MinutesOf(wall, zone) == {m \in Int : Shown(m, zone) = wall}

(* Zones as they are: the clock is changed at most once in the three days  *)
(* around a time, and never shows more than 18 hours ahead or behind.      *)
UtcOffsets == -Hours(18) .. Hours(18)
Zones == [Int -> UtcOffsets]

OneChange(zone, wall) ==
  \E change \in Int : \A s, t \in wall - Hours(36) .. wall + Hours(36) :
    (s < change <=> t < change) => zone[s] = zone[t]

-----------------------------------------------------------------------------
(* The form of an event: its times, as typed and as sent.                  *)

Optional(wall, zone) == IF wall = None THEN {None} ELSE ToInstant(wall, zone)

OrderedTimes(b) ==
  /\ b.starts_at < b.ends_at
  /\ b.registration_closes_at # None =>
       /\ b.registration_closes_at <= b.ends_at
       /\ b.registration_opens_at # None =>
            b.registration_opens_at <= b.registration_closes_at

EventBody(form, zone) ==
  {b \in [starts_at : ToInstant(form.starts_at, zone),
          ends_at : ToInstant(form.ends_at, zone),
          registration_opens_at : Optional(form.registration_opens_at, zone),
          registration_closes_at : Optional(form.registration_closes_at, zone)] :
     OrderedTimes(b)}

OptionalInput(t, zone) == IF t = None THEN None ELSE ZonedInput(t, zone)

(* The form as it opens on an event.                                       *)
FormOf(event, zone) ==
  [starts_at |-> ZonedInput(event.starts_at, zone),
   ends_at |-> ZonedInput(event.ends_at, zone),
   registration_opens_at |-> OptionalInput(event.registration_opens_at, zone),
   registration_closes_at |-> OptionalInput(event.registration_closes_at, zone)]

EventTimes ==
  [starts_at : Int, ends_at : Int, registration_opens_at : Int \cup {None},
   registration_closes_at : Int \cup {None}]

-----------------------------------------------------------------------------
(* What is sent is what the editor showed: the digits of a price come back *)
(* as the same number of minor units, up to the largest exact integer.     *)
THEOREM PriceRoundTrip ==
  ASSUME MaxSafeInteger \in Nat, NEW n \in 0 .. MaxSafeInteger
  PROVE  ParsePrice(PriceInput(n)) = {n}
<1> DEFINE m == n % 100
<1>1. n \in Int /\ n >= 0 /\ n <= MaxSafeInteger
  OBVIOUS
<1>2. n = 100 * (n \div 100) + m /\ m \in 0 .. 99
  BY <1>1
<1>3. n % 10 = m % 10 /\ m = 10 * (m \div 10) + (m % 10)
  BY <1>1, <1>2
<1>4. PriceInput(n).major = n \div 100
      /\ PriceInput(n).minor = <<m \div 10, n % 10>>
  BY DEF PriceInput
<1>5. Minor(PriceInput(n).minor) = 10 * (m \div 10) + (n % 10)
  BY <1>4 DEF Minor
<1>6. Amount(PriceInput(n)) = n
  BY <1>1, <1>2, <1>3, <1>4, <1>5 DEF Amount
<1> QED BY <1>1, <1>6 DEF ParsePrice

LEMMA Offset ==
  ASSUME NEW zone \in Zones, NEW t \in Int
  PROVE  zone[t] \in Int /\ -1080 <= zone[t] /\ zone[t] <= 1080
<1>1. zone[t] \in UtcOffsets
  BY DEF Zones
<1>2. \A o \in UtcOffsets : o \in Int /\ -1080 <= o /\ o <= 1080
  BY SMT DEF UtcOffsets, Hours
<1> QED BY <1>1, <1>2

LEMMA MinuteFacts ==
  ASSUME NEW t \in Int
  PROVE  /\ MinuteOf(t) \in Int
         /\ \A m \in Int : Start(m) \in Int /\ MinuteOf(Start(m)) = m
         /\ \A m, n \in Int : Start(m) = Start(n) => m = n
BY DEF MinuteOf, Start

LEMMA CandidateFacts ==
  ASSUME NEW wall \in Int, NEW zone \in Zones, NEW t \in Candidates(wall, zone)
  PROVE  \E m \in MinutesOf(wall, zone) : t = Start(m)
<1>1. PICK p \in Probes : t = Start(wall - zone[wall + p]) /\ ZonedInput(t, zone) = wall
  BY DEF Candidates, Offsets
<1>2. wall + p \in Int
  BY DEF Probes, Hours
<1>3. wall - zone[wall + p] \in Int
  BY <1>2, Offset
<1> DEFINE m == wall - zone[wall + p]
<1>4. m \in Int /\ t = Start(m) /\ MinuteOf(t) = m
  BY <1>1, <1>3, MinuteFacts
<1> QED BY <1>1, <1>4 DEF ZonedInput, MinutesOf

(* "Reject missing/ambiguous wall times rather than silently shifting a    *)
(* DST date": whatever the zone does, an instant that is accepted shows    *)
(* what was typed, and is the start of its minute.                         *)
THEOREM ToInstantSound ==
  ASSUME NEW wall \in Int, NEW zone \in Zones, NEW t \in ToInstant(wall, zone)
  PROVE  ZonedInput(t, zone) = wall /\ t = WholeMinute(t) /\ ToInstant(wall, zone) = {t}
<1>1. t \in Candidates(wall, zone) /\ Candidates(wall, zone) = {t}
  BY DEF ToInstant
<1>2. PICK m \in MinutesOf(wall, zone) : t = Start(m)
  BY <1>1, CandidateFacts
<1>3. m \in Int /\ Shown(m, zone) = wall /\ MinuteOf(t) = m
  BY <1>2, MinuteFacts DEF MinutesOf
<1> QED BY <1>1, <1>2, <1>3 DEF ToInstant, ZonedInput, WholeMinute

(* The five probes miss no minute that shows the time.                     *)
LEMMA ProbesSuffice ==
  ASSUME NEW wall \in Int, NEW zone \in Zones, OneChange(zone, wall)
  PROVE  Candidates(wall, zone) = {Start(m) : m \in MinutesOf(wall, zone)}
<1>1. ASSUME NEW t \in Candidates(wall, zone)
      PROVE  t \in {Start(m) : m \in MinutesOf(wall, zone)}
  BY CandidateFacts
<1>2. ASSUME NEW t \in MinutesOf(wall, zone)
      PROVE  Start(t) \in Candidates(wall, zone)
  <2> DEFINE window == wall - Hours(36) .. wall + Hours(36)
             first == wall - Hours(36)
             last == wall + Hours(36)
  <2>1. t \in Int /\ t = wall - zone[t]
         /\ zone[t] \in Int /\ -1080 <= zone[t] /\ zone[t] <= 1080
    <3>1. t \in Int /\ t + zone[t] = wall
      BY DEF MinutesOf, Shown
    <3>2. zone[t] \in Int /\ -1080 <= zone[t] /\ zone[t] <= 1080
      BY <3>1, Offset
    <3> QED BY <3>1, <3>2
  <2>2. t \in window /\ first \in window /\ last \in window
    <3>1. Hours(36) = 2160
      BY DEF Hours
    <3> DEFINE z == zone[t]
    <3>2. z \in Int /\ -1080 <= z /\ z <= 1080 /\ t = wall - z
      BY <2>1
    <3> HIDE DEF z
    <3> QED BY <3>1, <3>2
  <2>3. PICK change \in Int : \A s, u \in window :
          (s < change <=> u < change) => zone[s] = zone[u]
    BY DEF OneChange
  <2>4. first <= t /\ t <= last /\ first \in Int /\ last \in Int
    <3>1. Hours(36) \in Int
      BY DEF Hours
    <3> QED BY <2>2, <3>1
  <2>5. (t < change <=> first < change) \/ (t < change <=> last < change)
    BY <2>1, <2>4
  <2>6. zone[t] = zone[first] \/ zone[t] = zone[last]
    BY <2>2, <2>3, <2>5
  <2>7. zone[t] \in Offsets(wall, zone)
    BY <2>6 DEF Offsets, Probes
  <2>8. ZonedInput(Start(t), zone) = wall
    BY <2>1, MinuteFacts DEF ZonedInput, MinutesOf
  <2> QED BY <2>1, <2>7, <2>8 DEF Candidates
<1> QED BY <1>1, <1>2

(* A wall time is accepted if and only if exactly one minute shows it:     *)
(* none does in the hour a clock skips, two do in the hour it repeats.     *)
THEOREM ToInstantExact ==
  ASSUME NEW wall \in Int, NEW zone \in Zones, OneChange(zone, wall), NEW m \in Int
  PROVE  ToInstant(wall, zone) = {Start(m)} <=> MinutesOf(wall, zone) = {m}
<1>1. Candidates(wall, zone) = {Start(n) : n \in MinutesOf(wall, zone)}
  BY ProbesSuffice
<1>2. MinutesOf(wall, zone) \subseteq Int
  BY DEF MinutesOf
<1>3. Candidates(wall, zone) = {Start(m)} <=> MinutesOf(wall, zone) = {m}
  <2>1. ASSUME Candidates(wall, zone) = {Start(m)} PROVE MinutesOf(wall, zone) = {m}
    <3>1. \A n \in MinutesOf(wall, zone) : n = m
      BY <1>1, <1>2, <2>1, MinuteFacts
    <3>2. MinutesOf(wall, zone) # {}
      BY <1>1, <2>1
    <3> QED BY <3>1, <3>2
  <2>2. ASSUME MinutesOf(wall, zone) = {m} PROVE Candidates(wall, zone) = {Start(m)}
    BY <1>1, <2>2
  <2> QED BY <2>1, <2>2
<1> QED BY <1>3 DEF ToInstant

(* A stored instant that is shown and sent back loses its seconds, and      *)
(* nothing else: it comes back as the start of its minute, or the form      *)
(* refuses it.                                                             *)
THEOREM TimeRoundTrip ==
  ASSUME NEW zone \in Zones, NEW t \in Int, OneChange(zone, ZonedInput(t, zone))
  PROVE  ToInstant(ZonedInput(t, zone), zone) \in {{WholeMinute(t)}, {}}
<1> DEFINE wall == ZonedInput(t, zone)
<1>1. MinuteOf(t) \in Int
  BY MinuteFacts
<1>2. wall \in Int
  BY <1>1, Offset DEF ZonedInput, Shown
<1>3. MinuteOf(t) \in MinutesOf(wall, zone)
  BY <1>1 DEF MinutesOf, ZonedInput
<1>4. WholeMinute(t) \in Candidates(wall, zone)
  BY <1>2, <1>3, ProbesSuffice DEF WholeMinute
<1> QED BY <1>4 DEF ToInstant

WithoutSeconds(event) ==
  LET Floor(t) == IF t = None THEN None ELSE WholeMinute(t) IN
  [starts_at |-> WholeMinute(event.starts_at), ends_at |-> WholeMinute(event.ends_at),
   registration_opens_at |-> Floor(event.registration_opens_at),
   registration_closes_at |-> Floor(event.registration_closes_at)]

(* Saving an event whose times nobody touched takes the seconds off them    *)
(* (which the API accepts, and other clients may have set) and moves none   *)
(* by more: no time is shifted to another minute, dropped or made up.       *)
THEOREM UntouchedTimesStay ==
  ASSUME NEW zone \in Zones, NEW event \in EventTimes, None \notin Int,
         \A t \in Int : OneChange(zone, ZonedInput(t, zone)),
         NEW body \in EventBody(FormOf(event, zone), zone)
  PROVE  body = WithoutSeconds(event)
<1> DEFINE form == FormOf(event, zone)
           Floor(t) == IF t = None THEN None ELSE WholeMinute(t)
<1>1. ASSUME NEW t \in Int
      PROVE  \A u \in ToInstant(ZonedInput(t, zone), zone) : u = WholeMinute(t)
  BY TimeRoundTrip
<1>2. ASSUME NEW t \in Int \cup {None}
      PROVE  \A u \in Optional(OptionalInput(t, zone), zone) : u = Floor(t)
  <2>1. CASE t = None
    BY <2>1 DEF Optional, OptionalInput
  <2>2. CASE t \in Int
    <3>1. ZonedInput(t, zone) \in Int
      BY <2>2, MinuteFacts, Offset DEF ZonedInput, Shown
    <3> QED BY <1>1, <2>2, <3>1 DEF Optional, OptionalInput
  <2> QED BY <2>1, <2>2
<1>3. /\ event.starts_at \in Int /\ event.ends_at \in Int
      /\ event.registration_opens_at \in Int \cup {None}
      /\ event.registration_closes_at \in Int \cup {None}
  BY DEF EventTimes
<1>4. /\ body.starts_at = WholeMinute(event.starts_at)
      /\ body.ends_at = WholeMinute(event.ends_at)
      /\ body.registration_opens_at = Floor(event.registration_opens_at)
      /\ body.registration_closes_at = Floor(event.registration_closes_at)
  BY <1>1, <1>2, <1>3 DEF EventBody, FormOf
<1>5. body = [starts_at |-> body.starts_at, ends_at |-> body.ends_at,
              registration_opens_at |-> body.registration_opens_at,
              registration_closes_at |-> body.registration_closes_at]
  BY DEF EventBody
<1> QED BY <1>4, <1>5 DEF WithoutSeconds
=============================================================================
