-------------------------------- MODULE Uuid --------------------------------
(***************************************************************************)
(* The UUID objects of src/lib/uuid.js: a cache from long strings to       *)
(* objects, filled by getUUID, which takes a UUID in any of its spellings. *)
(* The strings are compared as they are written, so the case of a spelling *)
(* is part of the model; its characters are not.                           *)
(*                                                                         *)
(* A UUID is four hexadecimal digits over a base.  The short UUIDs are     *)
(* those over the Bluetooth base; of the long ones the model has those     *)
(* that differ from a short one in the base alone.  What spells no UUID    *)
(* gives null, or an exception, and leaves the cache as it is: it is left  *)
(* out.  The program keeps two of the objects it is given, to compare.     *)
(***************************************************************************)
EXTENDS Naturals, Sequences

CONSTANTS
  Digits,    \* what stands for xxxx in 0000xxxx-...
  Lettered,  \* those with a letter among them: only letters have a case
  Padded,    \* those that begin with a zero
  MaxMade    \* bound: objects the cache is made to hold

ASSUME UuidAssumption ==
  /\ Lettered \subseteq Digits
  /\ Padded \subseteq Digits
  /\ MaxMade \in Nat

VARIABLES
  uuids,  \* uuids[key]: the object cached under a long string, 0 if none
  made,   \* made[o]: the object o: the UUID in its buffer, and its longString
  uuid1,  \* what the program keeps: a spelling and the object it got for it ...
  uuid2   \* ... and another

uuidVars == <<uuids, made, uuid1, uuid2>>

----------------------------------------------------------------------------
(* Spellings and long strings                                              *)

Bases == {"bluetooth", "other"}
Cases == {"lower", "upper"}
Value == [digits : Digits, base : Bases]

\* A long string: the case of its digits and of its base.  One made of a number
\* lacks the leading zero of the digits.
LongString == [digits : Digits, base : Bases, case : Cases, baseCase : Cases]
Unpadded   == [digits : Padded, base : {"bluetooth"}, case : {"unpadded"}, baseCase : {"lower"}]
Key        == LongString \cup Unpadded

Long(d, base, case, baseCase) ==
  [digits |-> d, base |-> base, case |-> IF d \in Lettered THEN case ELSE "lower",
   baseCase |-> baseCase]

\* What getUUID is called with.
Number     == [form : {"number"}, digits : Digits]
ShortText  == [form : {"short"}, digits : Digits, case : Cases]
LongText   == [form : {"long"}, text : LongString]
ShortBytes == [form : {"bytes"}, value : [digits : Digits, base : {"bluetooth"}], size : {2}]
LongBytes  == [form : {"bytes"}, value : Value, size : {16}]
Spelling   == Number \cup ShortText \cup LongText \cup ShortBytes \cup LongBytes

ValueOf(key) == [digits |-> key.digits, base |-> key.base]

\* The UUID a spelling spells.
Spelled(s) ==
  CASE s.form \in {"number", "short"} -> [digits |-> s.digits, base |-> "bluetooth"]
    [] s.form = "long"  -> ValueOf(s.text)
    [] s.form = "bytes" -> s.value

\* A string without a letter among its digits is the same in either case.
Spellings ==
  {s \in Spelling :
     /\ s.form = "short" => s.case = Long(s.digits, "bluetooth", s.case, "lower").case
     /\ s.form = "long"  => s.text = Long(s.text.digits, s.text.base, s.text.case, s.text.baseCase)}

----------------------------------------------------------------------------
(* getUUID                                                                 *)

\* Seeded fault: parseShortUUID looks the string up as it is written.
ShortKeyAsWritten(s) == Long(s.digits, "bluetooth", s.case, "lower")

\* shortToLong of the upper-case string.
ShortKey(s) == Long(s.digits, "bluetooth", "upper", "lower")

\* A number is written without its leading zeros.
NumberKey(d) ==
  IF d \in Padded
  THEN [digits |-> d, base |-> "bluetooth", case |-> "unpadded", baseCase |-> "lower"]
  ELSE Long(d, "bluetooth", "upper", "lower")

\* The key under which a spelling is looked up.
KeyOf(s) ==
  CASE s.form = "number" -> NumberKey(s.digits)
    [] s.form = "short"  -> ShortKey(s)
    [] s.form = "long"   -> s.text
    [] s.form = "bytes"  -> Long(s.value.digits, s.value.base, "lower", "lower")

\* Seeded fault: any UUID whose first digits are zero is taken for a short one.
ShortenedAnyBase(v) == [v EXCEPT !.base = "bluetooth"]

\* longToShort, and the buffer made of its result.
Shortened(v) == v

\* The object made for a spelling that is not cached: its buffer, the size of
\* it, and the longString parseLongUUID turns into upper case.
New(s) ==
  CASE s.form \in {"number", "short"} ->
         [value |-> Spelled(s), size |-> 2, longString |-> KeyOf(s)]
    [] s.form = "long" ->
         [value |-> Spelled(s), size |-> 16,
          longString |-> Long(s.text.digits, s.text.base, "upper", "upper")]
    [] s.form = "bytes" ->
         LET v == Shortened(s.value)
         IN  [value |-> v, size |-> IF v.base = "bluetooth" THEN 2 ELSE 16,
              longString |-> KeyOf(s)]

\* Seeded fault: an object is cached under its longString.
CachedUnderLongString(s, o) == [uuids EXCEPT ![made'[o].longString] = o]

\* Seeded fault: an object with a short string is cached under that.
CachedUnderShortString(s, o) ==
  LET key == IF made'[o].size = 2 THEN [short |-> made'[o].value.digits] ELSE KeyOf(s)
  IN  [k \in DOMAIN uuids \cup {key} |-> IF k = key THEN o ELSE uuids[k]]

Cached(s, o) == [uuids EXCEPT ![KeyOf(s)] = o]

Answer(s, o) == [spelling |-> s, object |-> o]

Keep(answer) ==
  \/ uuid1' = answer /\ UNCHANGED uuid2
  \/ uuid2' = answer /\ UNCHANGED uuid1

\* getUUID of a spelling: the object cached for it ...
GetCached(s) ==
  /\ uuids[KeyOf(s)] # 0
  /\ Keep(Answer(s, uuids[KeyOf(s)]))
  /\ UNCHANGED <<uuids, made>>

\* ... or a new one.
GetNew(s) ==
  LET o == Len(made) + 1
  IN  /\ uuids[KeyOf(s)] = 0
      /\ o <= MaxMade
      /\ made' = Append(made, New(s))
      /\ uuids' = Cached(s, o)
      /\ Keep(Answer(s, o))

ReCached(o) == [uuids EXCEPT ![made[o].longString] = IF @ = 0 THEN o ELSE @]

\* getUUID of a UUID object returns it, cached under its longString as well
\* unless another object is.
GetAgain(o) ==
  /\ uuids' = ReCached(o)
  /\ UNCHANGED <<made, uuid1, uuid2>>

----------------------------------------------------------------------------

NoAnswer == [object |-> 0]

UuidInit ==
  /\ uuids = [k \in Key |-> 0]
  /\ made = << >>
  /\ uuid1 = NoAnswer
  /\ uuid2 = NoAnswer

UuidNext ==
  \/ \E s \in Spellings : GetCached(s) \/ GetNew(s)
  \/ \E answer \in {uuid1, uuid2} \ {NoAnswer} : GetAgain(answer.object)

UuidSpec == UuidInit /\ [][UuidNext]_uuidVars

----------------------------------------------------------------------------
(* Properties                                                              *)

Object == [value : Value, size : {2, 16}, longString : Key]

Answers == [spelling : Spellings, object : 1 .. Len(made)] \cup {NoAnswer}

UuidTypeOK ==
  /\ uuids \in [Key -> 0 .. Len(made)]
  /\ made \in Seq(Object)
  /\ Len(made) <= MaxMade
  /\ uuid1 \in Answers
  /\ uuid2 \in Answers

\* However a UUID is spelled, and whatever was looked up before, the bytes of
\* the object that getUUID returns are those of the UUID.
DenotesWhatIsSpelled ==
  \A answer \in {uuid1, uuid2} \ {NoAnswer} :
    made[answer.object].value = Spelled(answer.spelling)

Both == uuid1 # NoAnswer /\ uuid2 # NoAnswer

\* A spelling keeps its object: looked up again, after whatever else was looked
\* up, it gives the object it gave before.
SpellingKeepsObject ==
  Both /\ uuid1.spelling = uuid2.spelling => uuid1.object = uuid2.object

\* The spellings src/test/testUUID.js compares: a number of four digits, a short
\* string in either case, a long string with upper-case digits over the base as
\* the source writes it.
Tested(s) ==
  \/ s.form = "number" /\ s.digits \notin Padded
  \/ s.form = "short"
  \/ s.form = "long" /\ s.text = Long(s.text.digits, "bluetooth", "upper", "lower")

SameUuid == Both /\ Spelled(uuid1.spelling) = Spelled(uuid2.spelling)

\* They give the same object in every order, and not in the test's alone.
TestedSpellingsAgree ==
  SameUuid /\ Tested(uuid1.spelling) /\ Tested(uuid2.spelling)
    => uuid1.object = uuid2.object

\* What the comment at the head of src/lib/uuid.js says: objects are singletons,
\* to be compared by ==, whichever way a UUID is specified.
Singletons == SameUuid => uuid1.object = uuid2.object

=============================================================================
