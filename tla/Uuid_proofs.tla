---------------------------- MODULE Uuid_proofs ----------------------------
(***************************************************************************)
(* Proofs about Uuid, for any digits and any number of objects.            *)
(*                                                                         *)
(* The properties are about the two objects the program keeps; they hold   *)
(* because of the whole cache: what is cached under a string is what the   *)
(* string spells (CacheDenotes), and no entry is ever replaced, so that a  *)
(* kept object still is the cached one (AnswersCached).                    *)
(***************************************************************************)
EXTENDS Uuid, TLAPS

CacheDenotes ==
  \A k \in Key : uuids[k] # 0 => made[uuids[k]].value = ValueOf(k)

\* getUUID of an object looks at its longString, which spells the object too.
LongStringsDenote ==
  \A o \in 1 .. Len(made) : ValueOf(made[o].longString) = made[o].value

AnswersCached ==
  \A answer \in {uuid1, uuid2} \ {NoAnswer} :
    uuids[KeyOf(answer.spelling)] = answer.object

UuidInv == UuidTypeOK /\ CacheDenotes /\ LongStringsDenote /\ AnswersCached

----------------------------------------------------------------------------
(* What getUUID computes before it looks at the cache                      *)

\* The forms of a spelling: what getUUID is called with is one of five.
LEMMA SpellingForms ==
  ASSUME NEW s \in Spellings
  PROVE  \/ s.form = "number" /\ s.digits \in Digits
         \/ s.form = "short" /\ s.digits \in Digits /\ s.case \in Cases
         \/ s.form = "long" /\ s.text \in LongString
         \/ s.form = "bytes" /\ s.value \in Value
BY DEF Spellings, Spelling, Number, ShortText, LongText, ShortBytes, LongBytes, Value, Bases

\* A long string is written from its parts.
LEMMA LongIsString ==
  ASSUME NEW d \in Digits, NEW base \in Bases, NEW case \in Cases, NEW baseCase \in Cases
  PROVE  /\ Long(d, base, case, baseCase) \in LongString
         /\ ValueOf(Long(d, base, case, baseCase)) = [digits |-> d, base |-> base]
BY DEF Long, LongString, ValueOf, Cases

\* getUUID looks a spelling up under a string that spells the same UUID.
LEMMA KeySpells ==
  ASSUME NEW s \in Spellings
  PROVE  KeyOf(s) \in Key /\ ValueOf(KeyOf(s)) = Spelled(s) /\ Spelled(s) \in Value
<1> USE DEF KeyOf, Key, Spelled, Value, Bases, Cases
<1>1. CASE s.form = "number" /\ s.digits \in Digits
  <2>1. CASE s.digits \in Padded
    BY <1>1, <2>1 DEF NumberKey, Unpadded, ValueOf
  <2>2. CASE s.digits \notin Padded
    BY <1>1, <2>2, LongIsString DEF NumberKey
  <2> QED
    BY <2>1, <2>2
<1>2. CASE s.form = "short" /\ s.digits \in Digits
  BY <1>2, LongIsString DEF ShortKey
<1>3. CASE s.form = "long" /\ s.text \in LongString
  BY <1>3 DEF LongString, ValueOf
<1>4. CASE s.form = "bytes" /\ s.value \in Value
  BY <1>4, LongIsString
<1> QED
  BY <1>1, <1>2, <1>3, <1>4, SpellingForms

\* The object made for a spelling is the UUID, and so is its long string.
LEMMA NewDenotes ==
  ASSUME NEW s \in Spellings
  PROVE  /\ New(s) \in Object
         /\ New(s).value = Spelled(s)
         /\ ValueOf(New(s).longString) = Spelled(s)
<1> USE KeySpells DEF Object
<1>1. CASE s.form \in {"number", "short"}
  BY <1>1 DEF New
<1>2. CASE s.form = "long" /\ s.text \in LongString
  <2>1. /\ Long(s.text.digits, s.text.base, "upper", "upper") \in LongString
        /\ ValueOf(Long(s.text.digits, s.text.base, "upper", "upper")) = ValueOf(s.text)
    <3>1. s.text.digits \in Digits /\ s.text.base \in Bases
      BY <1>2 DEF LongString
    <3>2. "upper" \in Cases
      BY DEF Cases
    <3> QED
      BY <3>1, <3>2, LongIsString DEF ValueOf
  <2> QED
    BY <1>2, <2>1 DEF New, Spelled, Key
<1>3. CASE s.form = "bytes" /\ s.value \in Value
  BY <1>3 DEF New, Spelled, Shortened
<1> QED
  BY <1>1, <1>2, <1>3, SpellingForms

\* The spellings the test compares are looked up under one string per UUID.
LEMMA TestedKeysAgree ==
  ASSUME NEW s \in Spellings, NEW t \in Spellings,
         Tested(s), Tested(t), Spelled(s) = Spelled(t)
  PROVE  KeyOf(s) = KeyOf(t)
<1>1. ASSUME NEW r \in Spellings, Tested(r)
      PROVE  KeyOf(r) = Long(Spelled(r).digits, "bluetooth", "upper", "lower")
  BY <1>1 DEF Tested, KeyOf, NumberKey, ShortKey, Spelled, ValueOf
<1> QED
  BY <1>1

----------------------------------------------------------------------------
(* The steps                                                               *)

\* The cache is empty at first.
LEMMA InitUuidInv == UuidInit => UuidInv
<1> SUFFICES ASSUME UuidInit  PROVE UuidInv
  OBVIOUS
<1>1. UuidTypeOK
  BY UuidAssumption DEF UuidInit, UuidTypeOK, Answers
<1>2. CacheDenotes /\ LongStringsDenote /\ AnswersCached
  BY DEF UuidInit, CacheDenotes, LongStringsDenote, AnswersCached
<1> QED
  BY <1>1, <1>2 DEF UuidInv

\* An answer is a spelling with an object that has been made, or none.
LEMMA AnswerParts ==
  ASSUME UuidTypeOK, NEW answer \in {uuid1, uuid2} \ {NoAnswer}
  PROVE  /\ answer.spelling \in Spellings
         /\ answer.object \in 1 .. Len(made)
         /\ answer = Answer(answer.spelling, answer.object)
BY DEF UuidTypeOK, Answers, Answer

\* What the program keeps after a look-up is the answer and what it had.
LEMMA KeptAnswers ==
  ASSUME NEW answer, Keep(answer), NEW kept \in {uuid1', uuid2'}
  PROVE  kept \in {uuid1, uuid2, answer}
BY DEF Keep

\* A UUID found in the cache.
LEMMA CachedUuidInv ==
  ASSUME UuidInv, NEW s \in Spellings, GetCached(s)
  PROVE  UuidInv'
<1> DEFINE answer == Answer(s, uuids[KeyOf(s)])
<1>1. UNCHANGED <<uuids, made>> /\ Keep(answer) /\ uuids[KeyOf(s)] # 0
  BY DEF GetCached
<1>2. answer \in Answers
  BY <1>1, KeySpells DEF UuidInv, UuidTypeOK, Answers, Answer
<1>3. UuidTypeOK'
  BY <1>1, <1>2 DEF UuidInv, UuidTypeOK, Answers, Keep
<1>4. CacheDenotes' /\ LongStringsDenote'
  BY <1>1 DEF UuidInv, CacheDenotes, LongStringsDenote
<1>5. AnswersCached'
  <2> SUFFICES ASSUME NEW kept \in {uuid1', uuid2'} \ {NoAnswer}
               PROVE  uuids[KeyOf(kept.spelling)] = kept.object
    BY <1>1 DEF AnswersCached
  <2>1. CASE kept = answer
    BY <2>1 DEF Answer
  <2>2. CASE kept \in {uuid1, uuid2}
    BY <2>2 DEF UuidInv, AnswersCached
  <2> QED
    BY <1>1, <2>1, <2>2, KeptAnswers
<1> QED
  BY <1>3, <1>4, <1>5 DEF UuidInv

\* A UUID made, and cached under the string that was looked up: no other entry
\* changes, and this one was empty.
LEMMA NewUuidInv ==
  ASSUME UuidInv, NEW s \in Spellings, GetNew(s)
  PROVE  UuidInv'
<1> DEFINE o == Len(made) + 1
<1> DEFINE answer == Answer(s, o)
<1>1. /\ uuids[KeyOf(s)] = 0 /\ o <= MaxMade
      /\ made' = Append(made, New(s))
      /\ uuids' = [uuids EXCEPT ![KeyOf(s)] = o]
      /\ Keep(answer)
  BY DEF GetNew, Cached
<1>2. /\ made \in Seq(Object) /\ Len(made) \in Nat /\ Len(made) <= MaxMade
      /\ uuids \in [Key -> 0 .. Len(made)]
      /\ uuid1 \in Answers /\ uuid2 \in Answers
  BY DEF UuidInv, UuidTypeOK
<1>3. /\ made' \in Seq(Object) /\ Len(made') = o /\ made'[o] = New(s)
      /\ \A i \in 1 .. Len(made) : made'[i] = made[i]
  BY <1>1, <1>2, NewDenotes
<1>4. /\ uuids' \in [Key -> 0 .. o]
      /\ uuids'[KeyOf(s)] = o
      /\ \A k \in Key \ {KeyOf(s)} : uuids'[k] = uuids[k]
  BY <1>1, <1>2, KeySpells
<1>5. Answers \subseteq Answers' /\ answer \in Answers'
  BY <1>2, <1>3 DEF Answers, Answer
<1>6. UuidTypeOK'
  <2>1. uuid1' \in Answers' /\ uuid2' \in Answers'
    BY <1>1, <1>2, <1>5 DEF Keep
  <2> QED
    BY <1>1, <1>3, <1>4, <2>1 DEF UuidTypeOK
<1>7. CacheDenotes'
  <2> SUFFICES ASSUME NEW k \in Key, uuids'[k] # 0
               PROVE  made'[uuids'[k]].value = ValueOf(k)
    BY DEF CacheDenotes
  <2>1. CASE k = KeyOf(s)
    BY <2>1, <1>3, <1>4, NewDenotes, KeySpells
  <2>2. CASE k # KeyOf(s)
    <3>1. uuids'[k] = uuids[k] /\ uuids[k] \in 1 .. Len(made)
      BY <2>2, <1>2, <1>4
    <3> QED
      BY <3>1, <1>3 DEF UuidInv, CacheDenotes
  <2> QED
    BY <2>1, <2>2
<1>8. LongStringsDenote'
  <2> SUFFICES ASSUME NEW i \in 1 .. o
               PROVE  ValueOf(made'[i].longString) = made'[i].value
    BY <1>3 DEF LongStringsDenote
  <2>1. CASE i = o
    BY <2>1, <1>3, NewDenotes
  <2>2. CASE i \in 1 .. Len(made)
    BY <2>2, <1>3 DEF UuidInv, LongStringsDenote
  <2> QED
    BY <1>2, <2>1, <2>2
<1>9. AnswersCached'
  <2> SUFFICES ASSUME NEW kept \in {uuid1', uuid2'} \ {NoAnswer}
               PROVE  uuids'[KeyOf(kept.spelling)] = kept.object
    BY DEF AnswersCached
  <2>1. CASE kept = answer
    BY <2>1, <1>4 DEF Answer
  <2>2. CASE kept \in {uuid1, uuid2}
    <3>1. /\ kept.spelling \in Spellings /\ kept.object \in 1 .. Len(made)
          /\ uuids[KeyOf(kept.spelling)] = kept.object
      BY <2>2, AnswerParts DEF UuidInv, AnswersCached
    <3>2. KeyOf(kept.spelling) \in Key /\ KeyOf(kept.spelling) # KeyOf(s)
      BY <3>1, <1>1, KeySpells
    <3> QED
      BY <3>1, <3>2, <1>4
  <2> QED
    BY <1>1, <2>1, <2>2, KeptAnswers
<1> QED
  BY <1>6, <1>7, <1>8, <1>9 DEF UuidInv

\* An object looked up by itself: it fills the entry of its long string, which
\* spells it, and replaces none.
LEMMA AgainUuidInv ==
  ASSUME UuidInv, NEW answer \in {uuid1, uuid2} \ {NoAnswer}, GetAgain(answer.object)
  PROVE  UuidInv'
<1> DEFINE o == answer.object
<1> DEFINE key == made[o].longString
<1>1. /\ uuids' = [uuids EXCEPT ![key] = IF @ = 0 THEN o ELSE @]
      /\ UNCHANGED <<made, uuid1, uuid2>>
  BY DEF GetAgain, ReCached
<1>2. /\ uuids \in [Key -> 0 .. Len(made)] /\ made \in Seq(Object) /\ Len(made) \in Nat
      /\ o \in 1 .. Len(made)
  BY AnswerParts DEF UuidInv, UuidTypeOK
<1>3. key \in Key /\ made[o].value = ValueOf(key)
  <2>1. made[o] \in Object
    BY <1>2
  <2> QED
    BY <2>1, <1>2 DEF Object, UuidInv, LongStringsDenote
<1>4. /\ uuids' \in [Key -> 0 .. Len(made)]
      /\ \A k \in Key : uuids[k] # 0 => uuids'[k] = uuids[k]
      /\ \A k \in Key : uuids'[k] # 0 => uuids'[k] = uuids[k] \/ (k = key /\ uuids'[k] = o)
  BY <1>1, <1>2, <1>3
<1>5. UuidTypeOK'
  BY <1>1, <1>4 DEF UuidInv, UuidTypeOK, Answers
<1>6. CacheDenotes' /\ LongStringsDenote'
  BY <1>1, <1>3, <1>4 DEF UuidInv, CacheDenotes, LongStringsDenote
<1>7. AnswersCached'
  <2> SUFFICES ASSUME NEW kept \in {uuid1, uuid2} \ {NoAnswer}
               PROVE  uuids'[KeyOf(kept.spelling)] = kept.object
    BY <1>1 DEF AnswersCached
  <2>1. kept.spelling \in Spellings /\ kept.object \in 1 .. Len(made)
    BY AnswerParts DEF UuidInv
  <2>2. uuids[KeyOf(kept.spelling)] = kept.object
    BY DEF UuidInv, AnswersCached
  <2> QED
    BY <2>1, <2>2, <1>2, <1>4, KeySpells
<1> QED
  BY <1>5, <1>6, <1>7 DEF UuidInv

\* Every way to call getUUID keeps the invariant.
LEMMA StepUuidInv == UuidInv /\ [UuidNext]_uuidVars => UuidInv'
<1> SUFFICES ASSUME UuidInv, [UuidNext]_uuidVars  PROVE UuidInv'
  OBVIOUS
<1>1. ASSUME NEW s \in Spellings, GetCached(s)  PROVE UuidInv'
  BY <1>1, CachedUuidInv
<1>2. ASSUME NEW s \in Spellings, GetNew(s)  PROVE UuidInv'
  BY <1>2, NewUuidInv
<1>3. ASSUME NEW answer \in {uuid1, uuid2} \ {NoAnswer}, GetAgain(answer.object)  PROVE UuidInv'
  BY <1>3, AgainUuidInv
<1>4. CASE UNCHANGED uuidVars
  BY <1>4 DEF uuidVars, UuidInv, UuidTypeOK, Answers, CacheDenotes, LongStringsDenote,
              AnswersCached
<1> QED
  BY <1>1, <1>2, <1>3, <1>4 DEF UuidNext

\* The inductive invariant holds in every reachable state.
THEOREM UuidInvariant == UuidSpec => []UuidInv
BY InitUuidInv, StepUuidInv, PTL DEF UuidSpec

----------------------------------------------------------------------------

\* The cache, the objects and the answers keep their types.
THEOREM UuidTypeCorrect == UuidSpec => []UuidTypeOK
<1>1. UuidInv => UuidTypeOK
  BY DEF UuidInv
<1> QED
  BY <1>1, UuidInvariant, PTL

\* However a UUID is spelled, the object getUUID gives has its bytes: the answer
\* is the cached object, and the cache denotes.
THEOREM SpellingsDenoted == UuidSpec => []DenotesWhatIsSpelled
<1>1. UuidInv => DenotesWhatIsSpelled
  <2> SUFFICES ASSUME UuidInv, NEW answer \in {uuid1, uuid2} \ {NoAnswer}
               PROVE  made[answer.object].value = Spelled(answer.spelling)
    BY DEF DenotesWhatIsSpelled
  <2>1. answer.spelling \in Spellings /\ answer.object \in 1 .. Len(made)
    BY AnswerParts DEF UuidInv
  <2>2. KeyOf(answer.spelling) \in Key /\ uuids[KeyOf(answer.spelling)] = answer.object
    BY <2>1, KeySpells DEF UuidInv, AnswersCached
  <2>3. answer.object # 0
    BY <2>1
  <2>4. made[answer.object].value = ValueOf(KeyOf(answer.spelling))
    BY <2>2, <2>3 DEF UuidInv, CacheDenotes
  <2> QED
    BY <2>1, <2>4, KeySpells
<1> QED
  BY <1>1, UuidInvariant, PTL

\* A spelling gives one object, whatever is looked up in between.
THEOREM SpellingKept == UuidSpec => []SpellingKeepsObject
<1>1. UuidInv => SpellingKeepsObject
  BY DEF UuidInv, AnswersCached, SpellingKeepsObject, Both
<1> QED
  BY <1>1, UuidInvariant, PTL

\* The spellings of src/test/testUUID.js give one object in every order.
THEOREM TestedAgree == UuidSpec => []TestedSpellingsAgree
<1>1. UuidInv => TestedSpellingsAgree
  <2> SUFFICES ASSUME UuidInv, SameUuid, Tested(uuid1.spelling), Tested(uuid2.spelling)
               PROVE  uuid1.object = uuid2.object
    BY DEF TestedSpellingsAgree
  <2>1. uuid1.spelling \in Spellings /\ uuid2.spelling \in Spellings
    BY AnswerParts DEF UuidInv, SameUuid, Both
  <2>2. KeyOf(uuid1.spelling) = KeyOf(uuid2.spelling)
    BY <2>1, TestedKeysAgree DEF SameUuid
  <2> QED
    BY <2>2 DEF UuidInv, AnswersCached, SameUuid, Both
<1> QED
  BY <1>1, UuidInvariant, PTL

=============================================================================
