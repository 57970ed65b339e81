----------------------------- MODULE AudioMixer -----------------------------
(***************************************************************************)
(* audio_mixer (isa/ and isa_detection.h): the build picks one of several  *)
(* classes, each written with the registers of one instruction set. All    *)
(* are to do the same: add up the voices of a frame, apply the gain, which *)
(* ramps from sample to sample, and bring the result back to 16 bits.      *)
(* The voice client that calls them is in the library's binary. Here it    *)
(* mixes one register, of voices that may talk in any order.               *)
(*                                                                         *)
(* Gains and scaled samples are floats, counted in parts of 1 / Unit: what *)
(* is multiplied or added is rounded to a float that is nearest to it.     *)
(* Sums stay far below 2^24, so that floats hold them exactly. avx512.h is *)
(* left out: store_values is static there and uses a member, so no build   *)
(* with it can exist.                                                      *)
(***************************************************************************)
EXTENDS Integers, FiniteSets, FiniteSetsExt

CONSTANTS
  Voices,      \* the users that talk
  Max16,       \* the maximum of int16_t
  Patterns,    \* what a voice sounds like: functions from lanes to samples
  Unit,        \* a gain of Unit leaves samples as they are
  Floats,      \* the numbers that a float can hold
  Gains,       \* values of current_gain
  Increments,  \* and of increment
  NoSamples    \* the output before it is written

Min16 == -Max16 - 1

ISAs == {"fallback", "avx", "avx2", "neon"}

ASSUME MixerAssumption ==
  /\ Max16 \in Nat /\ Unit \in Nat \ {0}
  /\ Floats \subseteq Int /\ \A a \in Min16 .. Max16 : a * Unit \in Floats
  /\ Gains \subseteq Floats \cap Nat /\ Increments \subseteq Floats
  /\ Patterns \subseteq [0 .. 7 -> Min16 .. Max16]
  /\ IsFiniteSet(Voices)

VARIABLES
  isa,                \* AVX_TYPE, as the build was configured
  fused,              \* the compiler fuses a product and the sum it goes into
  decoded_data,       \* what each voice says, decoded
  combined,           \* the voices that were added
  up_sampled_vector,  \* the sums, of 32 bits
  current_gain,
  increment,
  data_out            \* the mix, of 16 bits

mixerVars == <<isa, fused, decoded_data, combined, up_sampled_vector,
               current_gain, increment, data_out>>

\* byte_blocks_per_register
Width == CASE isa = "fallback" -> 2
           [] isa \in {"avx", "neon"} -> 4
           [] isa = "avx2" -> 8

Lanes == 0 .. Width - 1

MixerTypeOK ==
  /\ isa \in ISAs /\ fused \in BOOLEAN
  /\ decoded_data \in [Voices -> Patterns]
  /\ combined \subseteq Voices
  /\ up_sampled_vector \in [Lanes -> Int]
  /\ current_gain \in Gains /\ increment \in Increments
  /\ data_out = NoSamples \/ data_out \in [Lanes -> Min16 .. Max16]

MixerInit ==
  /\ isa \in ISAs /\ fused \in BOOLEAN
  /\ decoded_data \in [Voices -> Patterns]
  /\ combined = {}
  /\ up_sampled_vector = [x \in Lanes |-> 0]
  /\ current_gain \in Gains
  /\ increment \in Increments
  /\ data_out = NoSamples

-----------------------------------------------------------------------------
(* combine_samples *)

\* Mutant of Combined: each sum is brought back to 16 bits at once.
CombinedNarrow(sum, sample) ==
  CASE sum + sample > Max16 -> Max16
    [] sum + sample < Min16 -> Min16
    [] OTHER -> sum + sample

Combined(sum, sample) == sum + sample

CombineSamples(v) ==
  /\ data_out = NoSamples
  /\ v \in Voices \ combined
  /\ up_sampled_vector' =
       [x \in Lanes |-> Combined(up_sampled_vector[x], decoded_data[v][x])]
  /\ combined' = combined \cup {v}
  /\ UNCHANGED <<isa, fused, decoded_data, current_gain, increment, data_out>>

-----------------------------------------------------------------------------
(* collect_single_register *)

\* How often each lane has the increment. _mm_set_ps takes the highest lane
\* first: what avx.h and avx2.h list upwards runs downwards in the register.
RampStep(x) == IF isa \in {"avx", "avx2"} THEN Width - 1 - x ELSE x

Distance(p, q) == IF p >= q THEN p - q ELSE q - p

\* A float that is nearest to p: which one, if there are two, is left open.
Rounded(p) ==
  CHOOSE f \in Floats : \A g \in Floats : Distance(f, p) <= Distance(g, p)

\* The gain of a lane, and its sample with that gain, each operation rounded;
\* a fused one is rounded once.
Gain(x) ==
  LET added == increment * RampStep(x)
  IN  Rounded(current_gain + IF fused THEN added ELSE Rounded(added))

Amplified(x) == Rounded(up_sampled_vector[x] * Gain(x))

Lowest  == Min16 * Unit
Highest == Max16 * Unit

Least(a, b)    == IF a < b THEN a ELSE b
Greatest(a, b) == IF a > b THEN a ELSE b

\* Two comparisons; two blended halves, by sign; one after the other.
Clipped(p) ==
  CASE isa = "fallback" -> (IF p >= Highest THEN Highest
                            ELSE IF p <= Lowest THEN Lowest ELSE p)
    [] isa \in {"avx", "avx2"} -> (IF p >= 0 THEN Least(p, Highest)
                                             ELSE Greatest(p, Lowest))
    [] isa = "neon" -> Least(Greatest(p, Lowest), Highest)

\* static_cast<int16_t> drops the fraction.
Truncated(p) == IF p >= 0 THEN p \div Unit ELSE -((-p) \div Unit)

CollectSingleRegister ==
  /\ data_out = NoSamples /\ combined = Voices
  /\ data_out' = [x \in Lanes |-> Truncated(Clipped(Amplified(x)))]
  /\ UNCHANGED <<isa, fused, decoded_data, combined, up_sampled_vector, current_gain,
                 increment>>

MixerNext == CollectSingleRegister \/ \E v \in Voices : CombineSamples(v)

MixerSpec == MixerInit /\ [][MixerNext]_mixerVars

-----------------------------------------------------------------------------
(* What a mixer promises *)

\* With any instruction set, and in whatever order the voices came, each sample
\* of the mix is the sum of all voices with the gain of its lane, off by less
\* than one and never of the other sign, or the limit next to it: a voice that is
\* too loud on the way but not in the sum is heard in full (combine_samples keeps
\* 32 bits). It need not be rounded towards zero: 10 with a gain of 0.7f, which
\* is less than 0.7, gives 7, as the product has been rounded to 7 before.
MixedThenClipped ==
  data_out # NoSamples =>
    \A x \in Lanes :
      LET sum   == MapThenSumSet(LAMBDA v : decoded_data[v][x], Voices)
          exact == sum * Gain(x)
          error == exact - data_out[x] * Unit
      IN  \/ data_out[x] * exact >= 0 /\ error \in -(Unit - 1) .. Unit - 1
          \/ data_out[x] = Max16 /\ error > 0
          \/ data_out[x] = Min16 /\ error < 0

\* "The amount to increment each successive sample for" (discordvoiceclient.h,
\* of increment): a rising gain never makes a later one of two equal samples
\* quieter. It fails with avx.h and avx2.h, whose ramp runs downwards within
\* each register.
RampGoesOneWay ==
  data_out # NoSamples /\ increment > 0 =>
    \A x, y \in Lanes :
      x < y /\ 0 < up_sampled_vector[x] /\ up_sampled_vector[x] = up_sampled_vector[y]
        => data_out[x] <= data_out[y]

\* The other instruction sets keep to it, whatever clipping and rounding do to
\* the samples in between.
RampGoesOneWayElsewhere == isa \notin {"avx", "avx2"} => RampGoesOneWay
=============================================================================
