------------------------------ MODULE J22Codec ------------------------------
(***************************************************************************)
(* The J2.2 word codec of model/j22_codec.go.  A word is the set of the    *)
(* positions 0..79 whose bit is 1, position 0 first.  A payload is the two *)
(* words and the context block.                                            *)
(*                                                                         *)
(* Numbers are integers: a latitude or longitude counts half steps of the  *)
(* word's 0.0013 minutes, a course half degrees, a speed half knots, an    *)
(* altitude feet, so that every rounding of the code happens here too.     *)
(* A time counts ticks, of which TicksPerSecond make a second.             *)
(*                                                                         *)
(* Courses between two half degrees are left out but for Hair, which is    *)
(* any negative float64 not below -2^-45: added to 360, it gives 360.      *)
(*                                                                         *)
(* A text is [head, tail]: the bytes its field in the context block holds, *)
(* and the rest. TrackID stands for the four text fields; TrackNum and     *)
(* NPGNumber, which fit their fields, and TimeOfTrack, which is carried    *)
(* like TimeOfMessage, are left out.                                       *)
(***************************************************************************)
EXTENDS Integers, SequencesExt

CONSTANTS TicksPerSecond,
          Hair \* a course less than zero by a hair

ASSUME TicksAssumption == TicksPerSecond \in Nat \ {0}
ASSUME HairAssumption == Hair \notin Int

Courses == Int \union {Hair}

(* The number of half degrees, to the nearest. *)
HalfDegrees(c) == IF c = Hair THEN 0 ELSE c

(* setBits: the low n bits of v, most significant first, from start on. *)
SetBits(w, start, n, v) ==
  {b \in w : b < start \/ b >= start + n}
    \union {b \in start..(start + n - 1) : (v \div 2^(start + n - 1 - b)) % 2 = 1}

GetBits(w, start, n) ==
  MapThenSumSet(LAMBDA b : 2^(start + n - 1 - b), w \intersect (start..(start + n - 1)))

(* Fields <<start, n, v>> written one after the other into an empty word. *)
WordOf(fields) ==
  FoldLeft(LAMBDA w, f : SetBits(w, f[1], f[2], f[3]), {}, fields)

(* Bit i of the fourteen groups of five. *)
Group(w, i) == {b \in w \intersect (0..69) : b % 5 = i}

(* Faulty variant: the last group of five bits is left out. *)
WordParityShort(w) ==
  {70 + i : i \in {j \in 0..4 : Cardinality(Group(w, j) \ (65..69)) % 2 = 1}}

(* wordParity, where setParity puts it: a bit of the checksum is the XOR of *)
(* that bit of the groups.                                                  *)
WordParity(w) ==
  {70 + i : i \in {j \in 0..4 : Cardinality(Group(w, j)) % 2 = 1}}

SetParity(w) == {b \in w : b \notin 70..74} \union WordParity(w)

VerifyWordParity(w) == w \intersect (70..74) = WordParity(w)

ClampInt64(v, lo, hi) == IF v < lo THEN lo ELSE IF v > hi THEN hi ELSE v

(* math.Round(v / d): halves away from zero. *)
Rounded(v, d) == IF v >= 0 THEN (2 * v + d) \div (2 * d)
                           ELSE -((d - 2 * v) \div (2 * d))

(* Faulty variant: a negative count is not made a two's complement. *)
SignedToCountPlain(v, n) ==
  LET c == ClampInt64(Rounded(v, 2), -(2^(n - 1)), 2^(n - 1) - 1)
  IN IF c < 0 THEN -c ELSE c

SignedToCount(v, n) ==
  LET c == ClampInt64(Rounded(v, 2), -(2^(n - 1)), 2^(n - 1) - 1)
  IN IF c < 0 THEN c + 2^n ELSE c

(* The fields that are always zero set nothing. *)
EncodeInitialWord(m) ==
  SetParity(WordOf(
    <<<<2, 5, 2>>, <<7, 3, 2>>, <<10, 3, 1>>,              \* J2.2, two words
      <<13, 7, IF m.platform = "air" THEN 1 ELSE 0>>,
      <<23, 4, 1>>, <<27, 4, 8>>, <<31, 4, 15>>,
      <<40, 13, ClampInt64(Rounded(m.alt, 25), 0, 8191)>>,
      <<61, 4, 15>>>>))

EncodeExtensionWord(m) ==
  SetParity(WordOf(
    <<<<0, 2, 2>>,
      <<2, 23, SignedToCount(m.lat, 23)>>,
      <<25, 24, SignedToCount(m.lon, 24)>>,
      <<50, 9, ClampInt64(Rounded(HalfDegrees(m.course), 2), 0, 359)>>,
      <<59, 11, ClampInt64(Rounded(m.speed, 2), 0, 2046)>>>>))

PutASCII(text) == [text EXCEPT !.tail = ""]

(* A platform the list does not have is byte 0, which decodes to "unknown". *)
Platforms == <<"air", "surface", "subsurface", "land">>
PlatformByte(p) == IF \E k \in DOMAIN Platforms : Platforms[k] = p
                   THEN CHOOSE k \in DOMAIN Platforms : Platforms[k] = p
                   ELSE 0
PlatformFromByte(k) == IF k = 0 THEN "unknown" ELSE Platforms[k]

(* Faulty variant: a time is rounded up to its second. *)
UnixCeiling(t) == (t + TicksPerSecond - 1) \div TicksPerSecond

Unix(t) == t \div TicksPerSecond

EncodeJ22(m) ==
  [iw |-> EncodeInitialWord(m), e0 |-> EncodeExtensionWord(m),
   ctx |-> [id |-> PutASCII(m.id), platform |-> PlatformByte(m.platform),
            time |-> Unix(m.time), valid |-> m.valid]]

(* DecodeJ22 returns an error instead of a message. *)
Rejects(p) == \/ ~VerifyWordParity(p.iw)
              \/ ~VerifyWordParity(p.e0)
              \/ p.ctx.platform \notin 0..Len(Platforms)

(* A count of the upper half of its range is negative. *)
Count(v, n) == IF v >= 2^(n - 1) THEN v - 2^n ELSE v

DecodeJ22(p) ==
  [id |-> p.ctx.id, platform |-> PlatformFromByte(p.ctx.platform),
   lat |-> 2 * Count(GetBits(p.e0, 2, 23), 23),
   lon |-> 2 * Count(GetBits(p.e0, 25, 24), 24),
   alt |-> 25 * GetBits(p.iw, 40, 13),
   course |-> 2 * GetBits(p.e0, 50, 9),
   speed |-> 2 * GetBits(p.e0, 59, 11),
   time |-> p.ctx.time * TicksPerSecond, valid |-> p.ctx.valid]
=============================================================================
