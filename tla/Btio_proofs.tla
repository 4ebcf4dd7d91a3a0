---------------------------- MODULE Btio_proofs ----------------------------
(***************************************************************************)
(* Theorems about Btio.  The run takes every combination of options, so    *)
(* that the theorems add no case to it; what they add is the reason.  The  *)
(* calls are made in one order (Rank), each at most once, so that whatever *)
(* has to be done is either left to do or done (LeftOrDone), and nothing   *)
(* that is done is undone by what is left, but for the flag of the master. *)
(***************************************************************************)
EXTENDS Btio, SequenceTheorems, TLAPS

----------------------------------------------------------------------------
(* The order of the calls                                                  *)

Among(call, list) == \E i \in 1 .. Len(list) : list[i] = call

Securing == {"setSecurity", "setLevel"}

\* The security of an RFCOMM socket is set before the flag of the master, that
\* of an L2CAP socket after it.
Rank(type, call) ==
  CASE call = "socket"                      -> 0
    [] call = "bind"                        -> 1
    [] call \in Securing /\ type = "RFCOMM" -> 2
    [] call = "getOptions"                  -> 3
    [] call = "setOptions"                  -> 4
    [] call = "getLinkMode"                 -> 5
    [] call = "setMaster"                   -> 6
    [] call = "setFlushable"                -> 7
    [] call = "setPriority"                 -> 8
    [] call \in Securing /\ type # "RFCOMM" -> 9
    [] call = "getFlags"                    -> 10
    [] call = "setNonblocking"              -> 11
    [] OTHER                                -> 12

InOrder(type, list) ==
  \A i, j \in 1 .. Len(list) : i < j => Rank(type, list[i]) < Rank(type, list[j])

LEMMA RankIsNat ==
  ASSUME NEW type, NEW call
  PROVE  Rank(type, call) \in Nat /\ Rank(type, call) <= 12
BY DEF Rank, Securing

\* The call that is made is the first in the order, and is not made again.
LEMMA TailInOrder ==
  ASSUME NEW type, NEW S, NEW list \in Seq(S), list # <<>>, InOrder(type, list)
  PROVE  /\ Tail(list) \in Seq(S) /\ Head(list) \in S
         /\ InOrder(type, Tail(list))
         /\ \A call : Among(call, Tail(list)) <=> Among(call, list) /\ call # Head(list)
         /\ Among(Head(list), list)
         /\ \A call : Among(call, list) =>
              call = Head(list) \/ Rank(type, Head(list)) < Rank(type, call)
<1> DEFINE n == Len(list)
<1>1. /\ n \in Nat \ {0} /\ Head(list) = list[1] /\ Head(list) \in S
      /\ Tail(list) \in Seq(S) /\ Len(Tail(list)) = n - 1
      /\ \A i \in 1 .. n - 1 : Tail(list)[i] = list[i + 1]
  BY HeadTailProperties, EmptySeq
<1>2. InOrder(type, Tail(list))
  BY <1>1 DEF InOrder
<1>3. \A i \in 2 .. n : Rank(type, list[1]) < Rank(type, list[i])
  BY <1>1 DEF InOrder
<1>4. \A i \in 2 .. n : list[i] # Head(list)
  BY <1>1, <1>3, RankIsNat
<1>5. ASSUME NEW call, Among(call, Tail(list))
      PROVE  Among(call, list) /\ call # Head(list)
  <2>1. PICK i \in 1 .. n - 1 : list[i + 1] = call
    BY <1>1, <1>5 DEF Among
  <2> QED
    BY <1>1, <1>4, <2>1 DEF Among
<1>6. ASSUME NEW call, Among(call, list), call # Head(list)
      PROVE  Among(call, Tail(list)) /\ Rank(type, Head(list)) < Rank(type, call)
  <2>1. PICK i \in 1 .. n : list[i] = call
    BY <1>6 DEF Among
  <2>2. i \in 2 .. n /\ i - 1 \in 1 .. n - 1 /\ (i - 1) + 1 = i
    BY <1>1, <1>6, <2>1
  <2> QED
    BY <1>1, <1>3, <2>1, <2>2 DEF Among
<1>7. Among(Head(list), list)
  BY <1>1 DEF Among
<1> QED
  BY <1>1, <1>2, <1>5, <1>6, <1>7

\* The list makes these system calls and no other, in order, with ranks from lo
\* to hi.
Makes(type, list, calls, lo, hi) ==
  /\ list \in Seq(SystemCalls)
  /\ InOrder(type, list)
  /\ \A call : Among(call, list) <=> call \in calls
  /\ \A call \in calls : Rank(type, call) \in lo .. hi

When(condition, calls) == IF condition THEN calls ELSE {}

\* One call, two, those that are made on a condition, and one list after another.
LEMMA OneCall ==
  ASSUME NEW type, NEW lo \in Nat, NEW hi \in Nat,
         NEW a \in SystemCalls, lo <= Rank(type, a), Rank(type, a) <= hi
  PROVE  Makes(type, <<a>>, {a}, lo, hi)
<1>1. /\ <<a>> \in Seq(SystemCalls) /\ Len(<<a>>) = 1 /\ <<a>>[1] = a
      /\ 1 .. 1 = {1} /\ Rank(type, a) \in lo .. hi
  BY RankIsNat
<1> QED
  BY <1>1 DEF Makes, InOrder, Among

LEMMA TwoCalls ==
  ASSUME NEW type, NEW lo \in Nat, NEW hi \in Nat, NEW a \in SystemCalls, NEW b \in SystemCalls,
         lo <= Rank(type, a), Rank(type, a) < Rank(type, b), Rank(type, b) <= hi
  PROVE  Makes(type, <<a, b>>, {a, b}, lo, hi)
<1>1. /\ <<a, b>> \in Seq(SystemCalls) /\ Len(<<a, b>>) = 2
      /\ <<a, b>>[1] = a /\ <<a, b>>[2] = b /\ 1 .. 2 = {1, 2}
      /\ Rank(type, a) \in lo .. hi /\ Rank(type, b) \in lo .. hi
  BY RankIsNat
<1>2. \A call : Among(call, <<a, b>>) <=> call \in {a, b}
  BY <1>1 DEF Among
<1>3. InOrder(type, <<a, b>>)
  BY <1>1, RankIsNat DEF InOrder
<1> QED
  BY <1>1, <1>2, <1>3 DEF Makes

LEMMA OnCondition ==
  ASSUME NEW type, NEW lo, NEW hi, NEW list, NEW calls, NEW condition,
         Makes(type, list, calls, lo, hi)
  PROVE  Makes(type, If(condition, list), When(condition, calls), lo, hi)
<1>1. CASE condition
  BY <1>1 DEF If, When
<1>2. CASE ~condition
  BY <1>2 DEF If, When, Makes, InOrder, Among
<1> QED
  BY <1>1, <1>2

LEMMA JoinedInOrder ==
  ASSUME NEW type, NEW s, NEW t, NEW S, NEW T,
         NEW lo \in Nat, NEW mid \in Nat, NEW next \in Nat, NEW hi \in Nat,
         lo <= mid, mid < next, next <= hi,
         Makes(type, s, S, lo, mid), Makes(type, t, T, next, hi)
  PROVE  Makes(type, s \o t, S \cup T, lo, hi)
<1> DEFINE m == Len(s)  n == Len(t)
<1>1. /\ s \in Seq(SystemCalls) /\ t \in Seq(SystemCalls) /\ m \in Nat /\ n \in Nat
      /\ s \o t \in Seq(SystemCalls) /\ Len(s \o t) = m + n
      /\ \A i \in 1 .. m + n : (s \o t)[i] = IF i <= m THEN s[i] ELSE t[i - m]
  BY ConcatProperties, LenProperties DEF Makes
<1>2. ASSUME NEW call, Among(call, s \o t)
      PROVE  Among(call, s) \/ Among(call, t)
  <2>1. PICK i \in 1 .. m + n : (s \o t)[i] = call
    BY <1>1, <1>2 DEF Among
  <2>2. CASE i <= m
    BY <1>1, <2>1, <2>2 DEF Among
  <2>3. CASE ~(i <= m)
    <3>1. i - m \in 1 .. n
      BY <1>1, <2>1, <2>3
    <3> QED
      BY <1>1, <2>1, <2>3, <3>1 DEF Among
  <2> QED
    BY <2>2, <2>3
<1>3. ASSUME NEW call, Among(call, s)  PROVE Among(call, s \o t)
  BY <1>1, <1>3 DEF Among
<1>4. ASSUME NEW call, Among(call, t)  PROVE Among(call, s \o t)
  <2>1. PICK i \in 1 .. n : t[i] = call
    BY <1>4 DEF Among
  <2>2. i + m \in 1 .. m + n /\ ~(i + m <= m) /\ (i + m) - m = i
    BY <1>1, <2>1
  <2> QED
    BY <1>1, <2>1, <2>2 DEF Among
<1>5. /\ \A i \in 1 .. m : Rank(type, s[i]) \in lo .. mid
      /\ \A i \in 1 .. n : Rank(type, t[i]) \in next .. hi
  BY DEF Makes, Among
<1>6. InOrder(type, s \o t)
  <2> SUFFICES ASSUME NEW i \in 1 .. m + n, NEW j \in 1 .. m + n, i < j
               PROVE  Rank(type, (s \o t)[i]) < Rank(type, (s \o t)[j])
    BY <1>1 DEF InOrder
  <2>1. CASE j <= m
    <3>1. i \in 1 .. m /\ j \in 1 .. m /\ (s \o t)[i] = s[i] /\ (s \o t)[j] = s[j]
      BY <1>1, <2>1
    <3> QED
      BY <3>1 DEF Makes, InOrder
  <2>2. CASE i <= m /\ ~(j <= m)
    <3>1. i \in 1 .. m /\ j - m \in 1 .. n /\ (s \o t)[i] = s[i] /\ (s \o t)[j] = t[j - m]
      BY <1>1, <2>2
    <3>2. Rank(type, s[i]) \in lo .. mid /\ Rank(type, t[j - m]) \in next .. hi
      BY <1>5, <3>1
    <3> QED
      BY <3>1, <3>2
  <2>3. CASE ~(i <= m)
    <3>1. m \in Nat /\ n \in Nat /\ ~(j <= m)
      BY <2>3
    <3>2. i - m \in 1 .. n /\ j - m \in 1 .. n /\ i - m < j - m
      BY <2>3, <3>1
    <3>3. (s \o t)[i] = t[i - m] /\ (s \o t)[j] = t[j - m]
      BY <1>1, <2>3, <3>1
    <3> QED
      BY <3>2, <3>3 DEF Makes, InOrder
  <2> QED
    BY <1>1, <2>1, <2>2, <2>3
<1>7. \A call : Among(call, s \o t) <=> call \in S \cup T
  BY <1>2, <1>3, <1>4 DEF Makes
<1>8. \A call \in S \cup T : Rank(type, call) \in lo .. hi
  BY DEF Makes
<1> QED
  BY <1>1, <1>6, <1>7, <1>8 DEF Makes

\* The place of each call.
LEMMA Ranks ==
  ASSUME NEW type
  PROVE  /\ Rank(type, "socket") = 0 /\ Rank(type, "bind") = 1
         /\ Rank(type, "getOptions") = 3 /\ Rank(type, "setOptions") = 4
         /\ Rank(type, "getLinkMode") = 5 /\ Rank(type, "setMaster") = 6
         /\ Rank(type, "setFlushable") = 7 /\ Rank(type, "setPriority") = 8
         /\ Rank(type, "getFlags") = 10 /\ Rank(type, "setNonblocking") = 11
         /\ Rank(type, "connect") = 12 /\ Rank(type, "listen") = 12
         /\ \A call \in Securing : Rank(type, call) = IF type = "RFCOMM" THEN 2 ELSE 9
BY DEF Rank, Securing

LEMMA TheyAreCalls ==
  /\ "socket" \in SystemCalls /\ "bind" \in SystemCalls
  /\ "getOptions" \in SystemCalls /\ "setOptions" \in SystemCalls
  /\ "getLinkMode" \in SystemCalls /\ "setMaster" \in SystemCalls
  /\ "setFlushable" \in SystemCalls /\ "setPriority" \in SystemCalls
  /\ "setSecurity" \in SystemCalls /\ "setLevel" \in SystemCalls
  /\ "getFlags" \in SystemCalls /\ "setNonblocking" \in SystemCalls
  /\ "connect" \in SystemCalls /\ "listen" \in SystemCalls
  /\ "setSecurity" \in Securing /\ "setLevel" \in Securing
BY DEF SystemCalls, Securing

LEMMA MoreRoom ==
  ASSUME NEW type, NEW list, NEW calls,
         NEW lo \in Nat, NEW hi \in Nat, NEW low \in Nat, NEW high \in Nat,
         Makes(type, list, calls, lo, hi), low <= lo, hi <= high
  PROVE  Makes(type, list, calls, low, high)
<1>1. \A n \in lo .. hi : n \in low .. high
  OBVIOUS
<1> QED
  BY <1>1 DEF Makes

\* The lists that bt_io_connect and bt_io_listen are put together from.
LEMMA EachMakes ==
  ASSUME NEW type
  PROVE  /\ Makes(type, <<"socket", "bind">>, {"socket", "bind"}, 0, 1)
         /\ Makes(type, <<"getOptions", "setOptions">>, {"getOptions", "setOptions"}, 3, 4)
         /\ Makes(type, <<"getLinkMode", "setMaster">>, {"getLinkMode", "setMaster"}, 5, 6)
         /\ Makes(type, <<"setFlushable">>, {"setFlushable"}, 7, 7)
         /\ Makes(type, <<"setPriority">>, {"setPriority"}, 8, 8)
         /\ type = "RFCOMM" => Makes(type, <<"setSecurity">>, {"setSecurity"}, 2, 2)
         /\ type # "RFCOMM" => Makes(type, <<"setSecurity">>, {"setSecurity"}, 9, 9)
         /\ Makes(type, <<"getFlags", "setNonblocking">>, {"getFlags", "setNonblocking"}, 10, 11)
         /\ Makes(type, <<"connect">>, {"connect"}, 12, 12)
         /\ Makes(type, <<"listen">>, {"listen"}, 12, 12)
<1>1. Makes(type, <<"getOptions", "setOptions">>, {"getOptions", "setOptions"}, 3, 4)
  <2>1. /\ "getOptions" \in SystemCalls /\ "setOptions" \in SystemCalls
        /\ Rank(type, "getOptions") = 3 /\ Rank(type, "setOptions") = 4
    BY Ranks, TheyAreCalls
  <2> QED
    BY <2>1, TwoCalls
<1>2. Makes(type, <<"getLinkMode", "setMaster">>, {"getLinkMode", "setMaster"}, 5, 6)
  <2>1. /\ "getLinkMode" \in SystemCalls /\ "setMaster" \in SystemCalls
        /\ Rank(type, "getLinkMode") = 5 /\ Rank(type, "setMaster") = 6
    BY Ranks, TheyAreCalls
  <2> QED
    BY <2>1, TwoCalls
<1>3. Makes(type, <<"socket", "bind">>, {"socket", "bind"}, 0, 1)
  <2>1. /\ "socket" \in SystemCalls /\ "bind" \in SystemCalls
        /\ Rank(type, "socket") = 0 /\ Rank(type, "bind") = 1
    BY Ranks, TheyAreCalls
  <2> QED
    BY <2>1, TwoCalls
<1>4. Makes(type, <<"getFlags", "setNonblocking">>, {"getFlags", "setNonblocking"}, 10, 11)
  <2>1. /\ "getFlags" \in SystemCalls /\ "setNonblocking" \in SystemCalls
        /\ Rank(type, "getFlags") = 10 /\ Rank(type, "setNonblocking") = 11
    BY Ranks, TheyAreCalls
  <2> QED
    BY <2>1, TwoCalls
<1>5. Makes(type, <<"setFlushable">>, {"setFlushable"}, 7, 7)
  <2>1. "setFlushable" \in SystemCalls /\ Rank(type, "setFlushable") = 7
    BY Ranks, TheyAreCalls
  <2> QED
    BY <2>1, OneCall
<1>6. Makes(type, <<"setPriority">>, {"setPriority"}, 8, 8)
  <2>1. "setPriority" \in SystemCalls /\ Rank(type, "setPriority") = 8
    BY Ranks, TheyAreCalls
  <2> QED
    BY <2>1, OneCall
<1>7. Makes(type, <<"connect">>, {"connect"}, 12, 12)
  <2>1. "connect" \in SystemCalls /\ Rank(type, "connect") = 12
    BY Ranks, TheyAreCalls
  <2> QED
    BY <2>1, OneCall
<1>8. Makes(type, <<"listen">>, {"listen"}, 12, 12)
  <2>1. "listen" \in SystemCalls /\ Rank(type, "listen") = 12
    BY Ranks, TheyAreCalls
  <2> QED
    BY <2>1, OneCall
<1>9. ASSUME type = "RFCOMM"  PROVE Makes(type, <<"setSecurity">>, {"setSecurity"}, 2, 2)
  <2>1. "setSecurity" \in SystemCalls /\ Rank(type, "setSecurity") = 2
    BY <1>9, Ranks, TheyAreCalls
  <2> QED
    BY <2>1, OneCall
<1>10. ASSUME type # "RFCOMM"  PROVE Makes(type, <<"setSecurity">>, {"setSecurity"}, 9, 9)
  <2>1. "setSecurity" \in SystemCalls /\ Rank(type, "setSecurity") = 9
    BY <1>10, Ranks, TheyAreCalls
  <2> QED
    BY <2>1, OneCall
<1> QED
  BY <1>1, <1>2, <1>3, <1>4, <1>5, <1>6, <1>7, <1>8, <1>9, <1>10

\* l2cap_set: the options that are asked for, and in order.
LEMMA L2capInOrder ==
  ASSUME NEW o
  PROVE  LET sizes     == When(o.sizes, {"getOptions", "setOptions"})
             master    == When(o.master >= 0, {"getLinkMode", "setMaster"})
             flushable == When(o.flushable >= 0, {"setFlushable"})
             priority  == When(o.priority, {"setPriority"})
             level     == When(o.sec_level > 0, {"setSecurity"})
         IN  Makes("L2CAP", L2capSettings(o),
                   sizes \cup master \cup flushable \cup priority \cup level, 3, 9)
<1> DEFINE type == "L2CAP"
           sizes     == When(o.sizes, {"getOptions", "setOptions"})
           master    == When(o.master >= 0, {"getLinkMode", "setMaster"})
           flushable == When(o.flushable >= 0, {"setFlushable"})
           priority  == When(o.priority, {"setPriority"})
           level     == When(o.sec_level > 0, {"setSecurity"})
           A == If(o.sizes, <<"getOptions", "setOptions">>)
           B == If(o.master >= 0, <<"getLinkMode", "setMaster">>)
           C == If(o.flushable >= 0, <<"setFlushable">>)
           D == If(o.priority, <<"setPriority">>)
           E == If(o.sec_level > 0, <<"setSecurity">>)
<1>1. /\ Makes(type, <<"getOptions", "setOptions">>, {"getOptions", "setOptions"}, 3, 4)
      /\ Makes(type, <<"getLinkMode", "setMaster">>, {"getLinkMode", "setMaster"}, 5, 6)
      /\ Makes(type, <<"setFlushable">>, {"setFlushable"}, 7, 7)
      /\ Makes(type, <<"setPriority">>, {"setPriority"}, 8, 8)
      /\ Makes(type, <<"setSecurity">>, {"setSecurity"}, 9, 9)
  BY EachMakes
<1>2. Makes(type, A, sizes, 3, 4) /\ Makes(type, B, master, 5, 6)
  BY <1>1, OnCondition
<1>3. Makes(type, C, flushable, 7, 7) /\ Makes(type, D, priority, 8, 8)
  BY <1>1, OnCondition
<1>4. Makes(type, E, level, 9, 9)
  BY <1>1, OnCondition
<1>5. L2capSettings(o) = A \o B \o C \o D \o E
  BY DEF L2capSettings
<1> HIDE DEF type, A, B, C, D, E, sizes, master, flushable, priority, level
<1>6. Makes(type, A \o B, sizes \cup master, 3, 6)
  BY <1>2, JoinedInOrder
<1>7. Makes(type, A \o B \o C, sizes \cup master \cup flushable, 3, 7)
  BY <1>3, <1>6, JoinedInOrder
<1>8. Makes(type, A \o B \o C \o D, sizes \cup master \cup flushable \cup priority, 3, 8)
  BY <1>3, <1>7, JoinedInOrder
<1>9. Makes(type, A \o B \o C \o D \o E,
            sizes \cup master \cup flushable \cup priority \cup level, 3, 9)
  BY <1>4, <1>8, JoinedInOrder
<1> QED
  BY <1>5, <1>9 DEF type, sizes, master, flushable, priority, level

\* rfcomm_set, in its order.
LEMMA RfcommInOrder ==
  ASSUME NEW o
  PROVE  LET level  == When(o.sec_level > 0, {"setSecurity"})
             master == When(o.master >= 0, {"getLinkMode", "setMaster"})
         IN  Makes("RFCOMM", RfcommSettings(o), level \cup master, 2, 6)
<1> DEFINE type   == "RFCOMM"
           level  == When(o.sec_level > 0, {"setSecurity"})
           master == When(o.master >= 0, {"getLinkMode", "setMaster"})
           A == If(o.sec_level > 0, <<"setSecurity">>)
           B == If(o.master >= 0, <<"getLinkMode", "setMaster">>)
<1>1. /\ Makes(type, <<"setSecurity">>, {"setSecurity"}, 2, 2)
      /\ Makes(type, <<"getLinkMode", "setMaster">>, {"getLinkMode", "setMaster"}, 5, 6)
  BY EachMakes
<1>2. Makes(type, A, level, 2, 2) /\ Makes(type, B, master, 5, 6)
  BY <1>1, OnCondition
<1>3. RfcommSettings(o) = A \o B
  BY DEF RfcommSettings
<1> HIDE DEF type, A, B, level, master
<1>4. Makes(type, A \o B, level \cup master, 2, 6)
  BY <1>2, JoinedInOrder
<1> QED
  BY <1>3, <1>4 DEF type, level, master

\* sco_set.
LEMMA ScoInOrder ==
  ASSUME NEW o
  PROVE  Makes("SCO", ScoSettings(o), When(o.sizes, {"getOptions", "setOptions"}), 3, 4)
<1>1. Makes("SCO", <<"getOptions", "setOptions">>, {"getOptions", "setOptions"}, 3, 4)
  BY EachMakes
<1> QED
  BY <1>1, OnCondition DEF ScoSettings

\* The calls between bind and the flags, whatever the type.
SettingCalls(o) ==
  When(o.type # "RFCOMM" /\ o.sizes, {"getOptions", "setOptions"})
    \cup When(o.type # "SCO" /\ o.master >= 0, {"getLinkMode", "setMaster"})
    \cup When(o.type = "L2CAP" /\ o.flushable >= 0, {"setFlushable"})
    \cup When(o.type = "L2CAP" /\ o.priority, {"setPriority"})
    \cup When(o.type # "SCO" /\ o.sec_level > 0, {"setSecurity"})

LEMMA SettingsInOrder ==
  ASSUME NEW o, o.type \in Types
  PROVE  Makes(o.type, Settings(o), SettingCalls(o), 2, 9)
<1> DEFINE sizes     == When(o.sizes, {"getOptions", "setOptions"})
           master    == When(o.master >= 0, {"getLinkMode", "setMaster"})
           flushable == When(o.flushable >= 0, {"setFlushable"})
           priority  == When(o.priority, {"setPriority"})
           level     == When(o.sec_level > 0, {"setSecurity"})
<1>1. CASE o.type = "L2CAP"
  <2>1. SettingCalls(o) = sizes \cup master \cup flushable \cup priority \cup level
    BY <1>1 DEF SettingCalls, When
  <2>2. Settings(o) = L2capSettings(o)
    BY <1>1 DEF Settings
  <2>3. Makes(o.type, Settings(o), SettingCalls(o), 3, 9)
    BY <1>1, <2>1, <2>2, L2capInOrder
  <2> QED
    BY <2>3, MoreRoom
<1>2. CASE o.type = "RFCOMM"
  <2>1. SettingCalls(o) = level \cup master
    BY <1>2 DEF SettingCalls, When
  <2>2. Settings(o) = RfcommSettings(o)
    BY <1>2 DEF Settings
  <2>3. Makes(o.type, Settings(o), SettingCalls(o), 2, 6)
    BY <1>2, <2>1, <2>2, RfcommInOrder
  <2> QED
    BY <2>3, MoreRoom
<1>3. CASE o.type = "SCO"
  <2>1. SettingCalls(o) = sizes
    BY <1>3 DEF SettingCalls, When
  <2>2. Settings(o) = ScoSettings(o)
    BY <1>3 DEF Settings
  <2>3. Makes(o.type, Settings(o), SettingCalls(o), 3, 4)
    BY <1>3, <2>1, <2>2, ScoInOrder
  <2> QED
    BY <2>3, MoreRoom
<1> QED
  BY <1>1, <1>2, <1>3 DEF Types

\* bt_io_connect and bt_io_listen from the first call to the last.
LEMMA OpeningInOrder ==
  ASSUME NEW who, NEW o, o.type \in Types
  PROVE  Makes(o.type, Opening(who, o),
               {"socket", "bind"} \cup SettingCalls(o) \cup {"getFlags", "setNonblocking"}
                 \cup {IF who = "Connection" THEN "connect" ELSE "listen"}, 0, 12)
<1> DEFINE A == <<"socket", "bind">>
           B == Settings(o)
           C == <<"getFlags", "setNonblocking">>
           D == IF who = "Connection" THEN <<"connect">> ELSE <<"listen">>
           first == {"socket", "bind"}
           flags == {"getFlags", "setNonblocking"}
           last  == {IF who = "Connection" THEN "connect" ELSE "listen"}
<1>1. Makes(o.type, A, first, 0, 1) /\ Makes(o.type, C, flags, 10, 11)
  BY EachMakes
<1>2. Makes(o.type, B, SettingCalls(o), 2, 9)
  BY SettingsInOrder
<1>3. Makes(o.type, D, last, 12, 12)
  BY EachMakes
<1>4. Opening(who, o) = A \o B \o C \o D
  BY DEF Opening
<1> HIDE DEF A, B, C, D, first, flags, last
<1>5. Makes(o.type, A \o B, first \cup SettingCalls(o), 0, 9)
  BY <1>1, <1>2, JoinedInOrder
<1>6. Makes(o.type, A \o B \o C, first \cup SettingCalls(o) \cup flags, 0, 11)
  BY <1>1, <1>5, JoinedInOrder
<1>7. Makes(o.type, A \o B \o C \o D, first \cup SettingCalls(o) \cup flags \cup last, 0, 12)
  BY <1>3, <1>6, JoinedInOrder
<1> QED
  BY <1>4, <1>7 DEF first, flags, last

\* A call that is replaced by another of its rank, which is made first.
LEMMA ReplacedInOrder ==
  ASSUME NEW type, NEW S, NEW list \in Seq(S), list # <<>>, InOrder(type, list),
         NEW a \in S, Rank(type, a) = Rank(type, Head(list))
  PROVE  /\ <<a>> \o Tail(list) \in Seq(S)
         /\ InOrder(type, <<a>> \o Tail(list))
         /\ \A call : Among(call, <<a>> \o Tail(list)) <=> call = a \/ Among(call, Tail(list))
<1> DEFINE n == Len(list)
           new == <<a>> \o Tail(list)
<1>1. /\ n \in Nat \ {0} /\ Head(list) = list[1]
      /\ Tail(list) \in Seq(S) /\ Len(Tail(list)) = n - 1
      /\ \A i \in 1 .. n - 1 : Tail(list)[i] = list[i + 1]
  BY HeadTailProperties, EmptySeq
<1>2. <<a>> \in Seq(S) /\ Len(<<a>>) = 1 /\ <<a>>[1] = a
  OBVIOUS
<1>3. /\ new \in Seq(S) /\ Len(new) = n /\ new[1] = a
      /\ \A i \in 2 .. n : new[i] = Tail(list)[i - 1] /\ new[i] = list[i]
  <2>1. /\ new \in Seq(S) /\ Len(new) = 1 + (n - 1)
        /\ \A i \in 1 .. 1 + (n - 1) : new[i] = IF i <= 1 THEN <<a>>[i] ELSE Tail(list)[i - 1]
    BY <1>1, <1>2, ConcatProperties
  <2> QED
    BY <1>1, <1>2, <2>1
<1> HIDE DEF new
<1>4. InOrder(type, new)
  <2> SUFFICES ASSUME NEW i \in 1 .. n, NEW j \in 1 .. n, i < j
               PROVE  Rank(type, new[i]) < Rank(type, new[j])
    BY <1>3 DEF InOrder
  <2>1. Rank(type, new[i]) = Rank(type, list[i]) /\ Rank(type, new[j]) = Rank(type, list[j])
    BY <1>1, <1>3
  <2> QED
    BY <2>1 DEF InOrder
<1>5. \A call : Among(call, new) <=> call = a \/ Among(call, Tail(list))
  <2>1. ASSUME NEW call, Among(call, new)  PROVE call = a \/ Among(call, Tail(list))
    <3>1. PICK i \in 1 .. n : new[i] = call
      BY <1>3, <2>1 DEF Among
    <3>2. CASE i = 1
      BY <1>3, <3>1, <3>2
    <3>3. CASE i # 1
      <4>1. i - 1 \in 1 .. n - 1 /\ Tail(list)[i - 1] = call
        BY <1>1, <1>3, <3>1, <3>3
      <4> QED
        BY <1>1, <4>1 DEF Among
    <3> QED
      BY <3>2, <3>3
  <2>2. Among(a, new)
    BY <1>1, <1>3 DEF Among
  <2>3. ASSUME NEW call, Among(call, Tail(list))  PROVE Among(call, new)
    <3>1. PICK i \in 1 .. n - 1 : Tail(list)[i] = call
      BY <1>1, <2>3 DEF Among
    <3>2. i + 1 \in 1 .. n /\ new[i + 1] = call
      BY <1>1, <1>3, <3>1
    <3> QED
      BY <1>3, <3>2 DEF Among
  <2> QED
    BY <2>1, <2>2, <2>3
<1> QED
  BY <1>3, <1>4, <1>5 DEF new

----------------------------------------------------------------------------
(* The inductive invariant                                                 *)

\* What is left to do while the socket is opened: the calls in their order, and
\* only those that were asked for.
CallsInOrder(list) ==
  /\ list \in Seq(SystemCalls)
  /\ InOrder(opts.type, list)
  /\ Among("getLinkMode", list) => Among("setMaster", list)
  /\ Among("setMaster", list) => opts.type # "SCO" /\ opts.master >= 0
  /\ Among("setPriority", list) => opts.priority
  /\ \A call \in Securing : Among(call, list) =>
       /\ opts.sec_level > 0
       /\ opts.type = "RFCOMM" /\ opts.master >= 0 => Among("setMaster", list)
  /\ Among("setLevel", list) => ~security

Left(call) == Among(call, todo)

DescriptorInTurn ==
  /\ fd = IF Left("socket") THEN "none" ELSE "open"
  /\ sock = IF Left("socket") THEN "none" ELSE "fd"

\* Every option is set, or its call is still to come.
LeftOrDone ==
  /\ Left("bind") \/ socket.bound
  /\ Left("setNonblocking") \/ socket.nonblocking
  /\ opts.sizes /\ opts.type # "RFCOMM" => Left("setOptions") \/ socket.sizes
  /\ opts.type = "L2CAP" =>
       /\ Left("setFlushable") \/ socket.flushable = opts.flushable
       /\ Left("setPriority") \/ socket.priority = opts.priority
  /\ opts.type # "SCO" =>
       /\ opts.sec_level > 0 =>
            Left("setSecurity") \/ Left("setLevel") \/ socket.level = opts.sec_level
       /\ opts.master >= 0 /\ ~MasterLost =>
            Left("setMaster") \/ socket.master = (opts.master = 1)

OpeningInv ==
  /\ CallsInOrder(todo)
  /\ DescriptorInTurn
  /\ LeftOrDone
  /\ socket.live => todo = <<>>

\* The socket is being made, or create_handle has returned it.
Opens == stage = "creating" \/ (stage = "created" /\ sock = "fd")

\* bt_io_get comes to the MTU before it comes to an option it does not know, or
\* the other way round.
Questions == {"getDomain", "getProtocol", "getOptions", "getPeers"} \cup Wanted

TellsSize == ~(opts.type = "RFCOMM" \/ (opts.type = "SCO" /\ owner = "Central"))

SizeAhead(list) ==
  \E i \in 1 .. Len(list) :
    /\ list[i] = "imtu"
    /\ \A j \in 1 .. i : list[j] \notin Wanted \ Supported(opts.type)

SizeBarred(list) ==
  \A i \in 1 .. Len(list) : list[i] = "imtu" =>
    \E j \in 1 .. i : list[j] \in Wanted \ Supported(opts.type)

\* The system calls stand before the options.
OptionsLast(list) ==
  \A i \in 1 .. Len(list) : list[i] \in SystemCalls =>
    \A j \in 1 .. i : list[j] \in SystemCalls

AskingInv ==
  /\ todo \in Seq(Questions)
  /\ OptionsLast(todo)
  /\ stored # {} => \A i \in 1 .. Len(todo) : todo[i] \notin SystemCalls
  /\ IF TellsSize THEN "imtu" \in stored \/ SizeAhead(todo)
                  ELSE SizeBarred(todo)

\* What bt_io_get has stored is what the type has, and nothing if a call failed;
\* the MTU is not among it where the channel, or nothing, comes first.
StoredInv ==
  /\ stored \subseteq Supported(opts.type)
  /\ ~TellsSize => "imtu" \notin stored
  /\ stage \notin {"asking", "answered"} => stored = {}
  /\ stage = "answered" /\ TellsSize => "imtu" \in stored

BtioInv ==
  /\ TypeOK
  /\ Opens => OpeningInv
  /\ stage = "asking" => AskingInv
  /\ ~Opens /\ stage # "asking" => todo = <<>>
  /\ stage = "created" /\ ~Opens => fd # "open"
  /\ StoredInv
  /\ NoDescriptorLeft
  /\ LiveAsAsked

----------------------------------------------------------------------------
(* The steps of an opening                                                 *)

LEMMA TypesOfOptions ==
  ASSUME opts \in Options
  PROVE  /\ opts \in SetOpts /\ opts.type \in Types /\ opts.sec_level \in Level
         /\ opts.sizes \in BOOLEAN /\ opts.master \in Choice /\ opts.flushable \in Choice
         /\ opts.priority \in BOOLEAN
<1>1. opts \in SetOpts
  BY BtioAssumption
<1> QED
  BY <1>1 DEF SetOpts

LEMMA InitBtioInv ==
  ASSUME Init
  PROVE  BtioInv
<1> DEFINE last == IF owner = "Connection" THEN "connect" ELSE "listen"
<1>1. opts.type \in Types /\ opts.flushable \in Choice /\ opts.priority \in BOOLEAN
  BY TypesOfOptions DEF Init
<1>2. /\ todo \in Seq(SystemCalls)
      /\ InOrder(opts.type, todo)
      /\ \A call : Left(call) <=> call \in {"socket", "bind"} \cup SettingCalls(opts)
                                      \cup {"getFlags", "setNonblocking"} \cup {last}
  BY <1>1, OpeningInOrder DEF Init, Makes, Left
<1>3. \A call : call \in SettingCalls(opts) <=>
        \/ opts.type # "RFCOMM" /\ opts.sizes /\ call \in {"getOptions", "setOptions"}
        \/ opts.type # "SCO" /\ opts.master >= 0 /\ call \in {"getLinkMode", "setMaster"}
        \/ opts.type = "L2CAP" /\ opts.flushable >= 0 /\ call = "setFlushable"
        \/ opts.type = "L2CAP" /\ opts.priority /\ call = "setPriority"
        \/ opts.type # "SCO" /\ opts.sec_level > 0 /\ call = "setSecurity"
  BY DEF SettingCalls, When
<1>4. /\ Left("socket") /\ Left("bind") /\ Left("setNonblocking") /\ ~Left("setLevel")
      /\ Left("setOptions") <=> opts.type # "RFCOMM" /\ opts.sizes
      /\ Left("getLinkMode") <=> opts.type # "SCO" /\ opts.master >= 0
      /\ Left("setMaster") <=> opts.type # "SCO" /\ opts.master >= 0
      /\ Left("setFlushable") <=> opts.type = "L2CAP" /\ opts.flushable >= 0
      /\ Left("setPriority") <=> opts.type = "L2CAP" /\ opts.priority
      /\ Left("setSecurity") <=> opts.type # "SCO" /\ opts.sec_level > 0
  BY <1>2, <1>3
<1>5. CallsInOrder(todo)
  BY <1>2, <1>4 DEF CallsInOrder, Left, Securing
<1>6. LeftOrDone
  <2>1. opts.flushable >= 0 \/ opts.flushable = -1
    BY <1>1 DEF Choice
  <2> QED
    BY <1>1, <1>4, <2>1 DEF LeftOrDone, Init, Fresh
<1>7. TypeOK
  <2>1. Fresh \in Sockets
    BY DEF Fresh, Sockets, Choice, Level
  <2>2. todo \in Seq(SystemCalls \cup Wanted)
    BY <1>2, SeqMonotonic
  <2> QED
    BY <2>1, <2>2 DEF Init, TypeOK, Stages
<1>8. ~socket.live
  BY DEF Init, Fresh
<1>9. StoredInv
  BY DEF Init, StoredInv
<1> QED
  BY <1>4, <1>5, <1>6, <1>7, <1>8, <1>9
     DEF Init, BtioInv, Opens, OpeningInv, DescriptorInTurn, NoDescriptorLeft, LiveAsAsked

\* The first call is made: what is left is the same, without it.
LEMMA TailOfCalls ==
  ASSUME NEW list, CallsInOrder(list), list # <<>>
  PROVE  /\ CallsInOrder(Tail(list))
         /\ Head(list) \in SystemCalls /\ Among(Head(list), list)
         /\ \A call : Among(call, Tail(list)) <=> Among(call, list) /\ call # Head(list)
         /\ \A call : Among(call, list) =>
              call = Head(list) \/ Rank(opts.type, Head(list)) < Rank(opts.type, call)
<1>1. /\ Tail(list) \in Seq(SystemCalls) /\ Head(list) \in SystemCalls
      /\ InOrder(opts.type, Tail(list)) /\ Among(Head(list), list)
      /\ \A call : Among(call, Tail(list)) <=> Among(call, list) /\ call # Head(list)
      /\ \A call : Among(call, list) =>
           call = Head(list) \/ Rank(opts.type, Head(list)) < Rank(opts.type, call)
  BY TailInOrder DEF CallsInOrder
<1>2. Among("getLinkMode", Tail(list)) => Among("setMaster", Tail(list))
  BY <1>1, Ranks DEF CallsInOrder
<1>3. \A call \in Securing : Among(call, Tail(list)) =>
        /\ opts.sec_level > 0
        /\ opts.type = "RFCOMM" /\ opts.master >= 0 => Among("setMaster", Tail(list))
  <2> SUFFICES ASSUME NEW call \in Securing, Among(call, Tail(list)),
                      opts.type = "RFCOMM" /\ opts.master >= 0, Head(list) = "setMaster"
               PROVE  FALSE
    BY <1>1 DEF CallsInOrder
  <2>1. Rank(opts.type, "setMaster") = 6 /\ Rank(opts.type, call) = 2
    BY Ranks
  <2> QED
    BY <1>1, <2>1, TheyAreCalls
<1> QED
  BY <1>1, <1>2, <1>3 DEF CallsInOrder

\* While bt_io_get has not been called nothing is stored.
LEMMA NothingStored ==
  ASSUME BtioInv, stage \notin {"asking", "answered"}, stage' \notin {"asking", "answered"},
         UNCHANGED <<given, stored>>
  PROVE  StoredInv'
BY DEF BtioInv, StoredInv, TellsSize, given

\* Calls are left only while the socket is made or bt_io_get is at work.
LEMMA CallsToMake ==
  ASSUME BtioInv, todo # <<>>, Head(todo) \notin Questions
  PROVE  Opens /\ OpeningInv /\ stage \in {"creating", "created"}
<1>1. CASE stage = "asking"
  <2>1. Head(todo) \in Questions
    BY <1>1, HeadTailProperties DEF BtioInv, AskingInv
  <2> QED
    BY <2>1
<1>2. CASE stage # "asking"
  BY <1>2 DEF BtioInv, Opens
<1> QED
  BY <1>1, <1>2

\* A socket that is in an order of calls is not live while a call is left.
LEMMA SameSocket ==
  ASSUME BtioInv, Opens, UNCHANGED <<given, stage, socket, stored>>, sock = "fd" => sock' = "fd",
         todo # <<>>, CallsInOrder(todo)', DescriptorInTurn', LeftOrDone'
  PROVE  BtioInv'
<1>1. ~socket.live
  BY DEF BtioInv, OpeningInv
<1>2. todo' \in Seq(SystemCalls \cup Wanted)
  BY SeqMonotonic DEF CallsInOrder
<1>3. TypeOK'
  BY <1>2 DEF BtioInv, TypeOK, given, Stages, DescriptorInTurn
<1>4. Opens' /\ stage \in {"creating", "created"}
  BY DEF Opens
<1>5. StoredInv'
  BY <1>4, NothingStored
<1>6. NoDescriptorLeft'
  BY <1>4 DEF DescriptorInTurn, NoDescriptorLeft
<1> QED
  BY <1>1, <1>3, <1>4, <1>5, <1>6 DEF BtioInv, OpeningInv, LiveAsAsked

LEMMA OpenKeeps ==
  ASSUME BtioInv, Open
  PROVE  BtioInv'
<1>1. Opens
  BY CallsToMake DEF Open, IsNext, Questions, Wanted
<1>2. /\ CallsInOrder(todo) /\ todo # <<>> /\ LeftOrDone /\ todo' = Tail(todo)
      /\ Head(todo) = "socket"
  BY <1>1 DEF BtioInv, OpeningInv, Open, IsNext
<1>3. /\ CallsInOrder(Tail(todo))
      /\ \A call : Left(call)' <=> Left(call) /\ call # "socket"
  BY <1>2, TailOfCalls DEF Left
<1>4. CallsInOrder(todo)'
  BY <1>2, <1>3 DEF Open, given, CallsInOrder
<1>5. LeftOrDone'
  BY <1>2, <1>3 DEF Open, given, LeftOrDone, MasterLost
<1>6. DescriptorInTurn'
  BY <1>3 DEF Open, DescriptorInTurn
<1> QED
  BY <1>1, <1>2, <1>4, <1>5, <1>6, SameSocket DEF Open

LEMMA OpenFailsKeeps ==
  ASSUME BtioInv, OpenFails
  PROVE  BtioInv'
<1>1. Opens /\ stage \in {"creating", "created"}
  BY CallsToMake DEF OpenFails, IsNext, Questions, Wanted
<1>2. fd = "none" /\ sock = "none"
  <2>1. CallsInOrder(todo) /\ todo # <<>> /\ Head(todo) = "socket"
    BY <1>1 DEF BtioInv, OpeningInv, OpenFails, IsNext
  <2>2. Left("socket")
    BY <2>1, TailOfCalls DEF Left
  <2> QED
    BY <1>1, <2>2 DEF BtioInv, OpeningInv, DescriptorInTurn
<1>3. TypeOK'
  BY DEF BtioInv, OpenFails, TypeOK, given, descriptor, Stages
<1>4. StoredInv'
  BY <1>1, NothingStored DEF OpenFails
<1> QED
  BY <1>2, <1>3, <1>4
     DEF BtioInv, OpenFails, given, descriptor, Opens, NoDescriptorLeft, LiveAsAsked, MasterLost

LEMMA SecurityUnknownKeeps ==
  ASSUME BtioInv, SecurityUnknown
  PROVE  BtioInv'
<1>1. Opens
  BY CallsToMake DEF SecurityUnknown, IsNext, Questions, Wanted
<1>2. /\ CallsInOrder(todo) /\ todo # <<>> /\ LeftOrDone /\ DescriptorInTurn
      /\ Head(todo) = "setSecurity" /\ ~security
      /\ todo' = <<"setLevel">> \o Tail(todo)
  BY <1>1 DEF BtioInv, OpeningInv, SecurityUnknown, IsNext
<1>3. /\ Left("setSecurity")
      /\ \A call : Among(call, Tail(todo)) <=> Left(call) /\ call # "setSecurity"
  BY <1>2, TailOfCalls DEF Left
<1>4. /\ todo' \in Seq(SystemCalls) /\ InOrder(opts.type, todo')
      /\ \A call : Left(call)' <=> call = "setLevel" \/ Among(call, Tail(todo))
  <2>1. Rank(opts.type, "setLevel") = Rank(opts.type, "setSecurity")
    BY Ranks, TheyAreCalls
  <2> QED
    BY <1>2, <2>1, ReplacedInOrder, TheyAreCalls DEF CallsInOrder, Left
<1>5. CallsInOrder(todo)'
  <2>1. \A call \in Securing : Left(call)' =>
          /\ opts.sec_level > 0
          /\ opts.type = "RFCOMM" /\ opts.master >= 0 => Left("setMaster")'
    BY <1>2, <1>3, <1>4, TheyAreCalls DEF CallsInOrder, Left
  <2> QED
    BY <1>2, <1>3, <1>4, <2>1 DEF SecurityUnknown, given, CallsInOrder, Left
<1>6. LeftOrDone'
  BY <1>2, <1>3, <1>4 DEF SecurityUnknown, given, LeftOrDone, MasterLost
<1>7. DescriptorInTurn'
  BY <1>2, <1>3, <1>4 DEF SecurityUnknown, descriptor, DescriptorInTurn
<1> QED
  BY <1>1, <1>2, <1>5, <1>6, <1>7, SameSocket DEF SecurityUnknown, descriptor

\* The flag is read and found right, and the call that would set it is left out.
LEMMA MasterAlreadyKeeps ==
  ASSUME BtioInv, MasterAlready
  PROVE  BtioInv'
<1> DEFINE rest == Tail(todo)
<1>1. Opens
  BY CallsToMake DEF MasterAlready, IsNext, Questions, Wanted
<1>2. /\ CallsInOrder(todo) /\ todo # <<>> /\ LeftOrDone /\ DescriptorInTurn
      /\ Head(todo) = "getLinkMode" /\ todo' = Tail(rest)
      /\ socket.master = (opts.master = 1)
  BY <1>1 DEF BtioInv, OpeningInv, MasterAlready, IsNext
<1> HIDE DEF rest
<1>3. /\ CallsInOrder(rest)
      /\ Left("getLinkMode")
      /\ \A call : Among(call, rest) <=> Left(call) /\ call # "getLinkMode"
      /\ \A call : Left(call) =>
           call = "getLinkMode" \/ Rank(opts.type, "getLinkMode") < Rank(opts.type, call)
  BY <1>2, TailOfCalls DEF Left, rest
<1>4. Among("setMaster", rest) /\ rest # <<>>
  <2>1. Left("setMaster")
    BY <1>2, <1>3 DEF CallsInOrder, Left
  <2>2. Among("setMaster", rest)
    BY <1>3, <2>1
  <2>3. ~Among("setMaster", <<>>)
    BY DEF Among
  <2> QED
    BY <2>2, <2>3
<1>5. /\ CallsInOrder(Tail(rest)) /\ Among(Head(rest), rest)
      /\ \A call : Left(call)' <=> Among(call, rest) /\ call # Head(rest)
      /\ "setMaster" = Head(rest)
           \/ Rank(opts.type, Head(rest)) < Rank(opts.type, "setMaster")
  BY <1>2, <1>3, <1>4, TailOfCalls DEF Left
<1>6. Head(rest) = "setMaster"
  <2>1. Rank(opts.type, "getLinkMode") < Rank(opts.type, Head(rest))
    BY <1>3, <1>5
  <2> QED
    BY <1>5, <2>1, Ranks, RankIsNat
<1>7. \A call : Left(call)' <=> Left(call) /\ call # "getLinkMode" /\ call # "setMaster"
  BY <1>3, <1>5, <1>6
<1>8. CallsInOrder(todo)'
  BY <1>2, <1>5 DEF MasterAlready, given, CallsInOrder
<1>9. LeftOrDone'
  BY <1>2, <1>7 DEF MasterAlready, given, LeftOrDone, MasterLost
<1>10. DescriptorInTurn'
  BY <1>2, <1>7 DEF MasterAlready, descriptor, DescriptorInTurn
<1> QED
  BY <1>1, <1>2, <1>8, <1>9, <1>10, SameSocket DEF MasterAlready, descriptor

\* A call that succeeds does what it was to do, and undoes nothing but the flag
\* of the master.
LEMMA AppliedSocket ==
  ASSUME TypeOK, NEW call
  PROVE  /\ Applied(call) \in Sockets
         /\ Applied(call).bound = (call = "bind" \/ socket.bound)
         /\ Applied(call).sizes = (call = "setOptions" \/ socket.sizes)
         /\ Applied(call).nonblocking = (call = "setNonblocking" \/ socket.nonblocking)
         /\ Applied(call).live = (call \in {"connect", "listen"} \/ socket.live)
         /\ Applied(call).priority = (call = "setPriority" \/ socket.priority)
         /\ Applied(call).flushable =
              IF call = "setFlushable" THEN opts.flushable ELSE socket.flushable
         /\ Applied(call).level = IF call \in Securing THEN opts.sec_level ELSE socket.level
         /\ Applied(call).master =
              IF call = "setMaster" THEN (opts.master = 1)
              ELSE IF call = "setLevel" THEN FALSE ELSE socket.master
<1>1. opts.sec_level \in Level /\ opts.flushable \in Choice /\ (opts.master = 1) \in BOOLEAN
  BY TypesOfOptions DEF TypeOK
<1>2. socket \in Sockets
  BY DEF TypeOK
<1>3. CASE call = "bind"
  BY <1>2, <1>3 DEF Applied, Sockets, Securing
<1>4. CASE call = "setOptions"
  BY <1>2, <1>4 DEF Applied, Sockets, Securing
<1>5. CASE call = "setMaster"
  BY <1>1, <1>2, <1>5 DEF Applied, Sockets, Securing
<1>6. CASE call = "setFlushable"
  BY <1>1, <1>2, <1>6 DEF Applied, Sockets, Securing
<1>7. CASE call = "setPriority"
  BY <1>2, <1>7 DEF Applied, Sockets, Securing
<1>8. CASE call = "setSecurity"
  BY <1>1, <1>2, <1>8 DEF Applied, Sockets, Securing
<1>9. CASE call = "setLevel"
  BY <1>1, <1>2, <1>9 DEF Applied, Sockets, Securing
<1>10. CASE call = "setNonblocking"
  BY <1>2, <1>10 DEF Applied, Sockets, Securing
<1>11. CASE call \in {"connect", "listen"}
  BY <1>2, <1>11 DEF Applied, Sockets, Securing
<1>12. CASE call \notin {"bind", "setOptions", "setMaster", "setFlushable", "setPriority",
                         "setSecurity", "setLevel", "setNonblocking", "connect", "listen"}
  BY <1>2, <1>12 DEF Applied, Sockets, Securing
<1> QED
  BY <1>3, <1>4, <1>5, <1>6, <1>7, <1>8, <1>9, <1>10, <1>11, <1>12

\* A call that is not the first is made on the socket, which is open.
LEMMA OnOpenSocket ==
  ASSUME BtioInv, Opens, todo # <<>>, Head(todo) # "socket"
  PROVE  OpeningInv /\ ~Left("socket") /\ fd = "open" /\ sock = "fd"
<1>1. OpeningInv
  BY DEF BtioInv
<1>2. Left("socket") => Rank(opts.type, Head(todo)) < Rank(opts.type, "socket")
  BY <1>1, TailOfCalls DEF OpeningInv, Left
<1>3. ~Left("socket")
  BY <1>2, Ranks, RankIsNat
<1> QED
  BY <1>1, <1>3 DEF OpeningInv, DescriptorInTurn

LEMMA SucceedsKeeps ==
  ASSUME BtioInv, Succeeds
  PROVE  BtioInv'
<1> DEFINE call == Head(todo)
<1>1. /\ CallsInOrder(todo) /\ todo # <<>> /\ LeftOrDone /\ DescriptorInTurn /\ TypeOK
      /\ call # "socket" /\ ~Skipped(call) /\ ~socket.live
      /\ todo' = Tail(todo) /\ socket' = Applied(call)
      /\ Opens /\ stage \in {"creating", "created"}
      /\ UNCHANGED <<given, fd, sock, stage, stored>>
  BY DEF BtioInv, OpeningInv, Opens, Succeeds, Setting, Ending, Last, descriptor
<1> HIDE DEF call
<1>2. /\ CallsInOrder(todo)'
      /\ call \in SystemCalls /\ Left(call)
      /\ \A c : Left(c)' <=> Left(c) /\ c # call
      /\ \A c : Left(c) => c = call \/ Rank(opts.type, call) < Rank(opts.type, c)
  BY <1>1, TailOfCalls DEF call, Left, given, CallsInOrder
<1>3. DescriptorInTurn' /\ fd' = "open"
  <2>1. ~Left("socket") /\ fd = "open"
    BY <1>1, OnOpenSocket DEF call
  <2> QED
    BY <1>1, <1>2, <2>1 DEF DescriptorInTurn
<1>4. LeftOrDone'
  <2>1. socket \in Sockets /\ opts' = opts /\ security' = security /\ MasterLost' = MasterLost
    BY <1>1 DEF TypeOK, given, MasterLost
  <2>2. /\ Left("bind")' \/ socket'.bound
        /\ Left("setNonblocking")' \/ socket'.nonblocking
        /\ opts.sizes /\ opts.type # "RFCOMM" => Left("setOptions")' \/ socket'.sizes
    BY <1>1, <1>2, AppliedSocket DEF LeftOrDone
  <2>3. opts.type = "L2CAP" => Left("setFlushable")' \/ socket'.flushable = opts.flushable
    BY <1>1, <1>2, AppliedSocket DEF LeftOrDone
  <2>4. opts.type = "L2CAP" => Left("setPriority")' \/ socket'.priority = opts.priority
    <3>1. CASE call = "setPriority"
      BY <1>1, <1>2, <3>1, AppliedSocket, TypesOfOptions DEF CallsInOrder, Left, TypeOK
    <3>2. CASE call # "setPriority"
      BY <1>1, <1>2, <3>2, <2>1, AppliedSocket DEF LeftOrDone, Sockets
    <3> QED
      BY <3>1, <3>2
  <2>5. opts.type # "SCO" /\ opts.sec_level > 0 =>
          Left("setSecurity")' \/ Left("setLevel")' \/ socket'.level = opts.sec_level
    BY <1>1, <1>2, AppliedSocket, TheyAreCalls DEF LeftOrDone, Securing
  <2>6. opts.type # "SCO" /\ opts.master >= 0 /\ ~MasterLost =>
          Left("setMaster")' \/ socket'.master = (opts.master = 1)
    <3>1. CASE call = "setMaster"
      BY <1>1, <3>1, AppliedSocket
    <3>2. CASE call = "setLevel"
      <4>1. ~security /\ opts.sec_level > 0
            /\ (opts.type = "RFCOMM" /\ opts.master >= 0 => Left("setMaster"))
        BY <1>1, <1>2, <3>2, TheyAreCalls DEF CallsInOrder, Left
      <4>2. opts.type \in Types
        BY <1>1, TypesOfOptions DEF TypeOK
      <4> QED
        BY <1>2, <3>2, <4>1, <4>2 DEF MasterLost, Types
    <3>3. CASE call \notin {"setMaster", "setLevel"}
      BY <1>1, <1>2, <3>3, AppliedSocket DEF LeftOrDone
    <3> QED
      BY <3>1, <3>2, <3>3
  <2> QED
    BY <2>1, <2>2, <2>3, <2>4, <2>5, <2>6 DEF LeftOrDone
<1>5. (socket.live => todo = <<>>)'
  <2> SUFFICES ASSUME call \in {"connect", "listen"}, todo' # <<>>
               PROVE  FALSE
    BY <1>1, AppliedSocket
  <2>1. todo' \in Seq(SystemCalls)
    BY <1>2 DEF CallsInOrder
  <2>2. 1 \in 1 .. Len(todo')
    BY <2>1, EmptySeq, LenProperties
  <2>3. PICK next : Left(next)'
    BY <2>2 DEF Left, Among
  <2>4. Rank(opts.type, call) = 12
    BY Ranks
  <2>5. Rank(opts.type, call) < Rank(opts.type, next)
    BY <1>2, <2>3
  <2> QED
    BY <2>4, <2>5, RankIsNat
<1>6. LiveAsAsked'
  <2>1. CASE socket'.live
    <3>1. \A c : ~Left(c)'
      BY <1>5, <2>1 DEF Left, Among
    <3> QED
      BY <1>4, <3>1 DEF LeftOrDone, LiveAsAsked
  <2>2. CASE ~socket'.live
    BY <2>2 DEF LiveAsAsked
  <2> QED
    BY <2>1, <2>2
<1>7. TypeOK'
  <2>1. todo' \in Seq(SystemCalls \cup Wanted)
    BY <1>2, SeqMonotonic DEF CallsInOrder
  <2> QED
    BY <1>1, <2>1, AppliedSocket DEF TypeOK, given
<1>8. StoredInv'
  BY <1>1, NothingStored
<1> QED
  BY <1>1, <1>2, <1>3, <1>4, <1>5, <1>6, <1>7, <1>8
     DEF BtioInv, Opens, OpeningInv, NoDescriptorLeft

\* create_handle gives up a socket that is open: it closes it, and returns none.
LEMMA SettingFailsKeeps ==
  ASSUME BtioInv, SettingFails
  PROVE  BtioInv'
<1>1. fd = "open" /\ stage = "creating"
  BY OnOpenSocket DEF SettingFails, Setting, Opens
<1>2. /\ fd' = "closed" /\ sock' = "none" /\ stage' = "created" /\ todo' = <<>>
      /\ UNCHANGED <<given, socket, stored>>
  BY <1>1 DEF SettingFails, Close
<1>3. StoredInv'
  BY <1>1, <1>2, NothingStored
<1> QED
  BY <1>2, <1>3
     DEF BtioInv, TypeOK, given, Stages, Opens, NoDescriptorLeft, LiveAsAsked, MasterLost

\* create_handle returns a socket that is open.
LEMMA CreatedKeeps ==
  ASSUME BtioInv, Created
  PROVE  BtioInv'
<1>1. /\ stage = "creating" /\ stage' = "created" /\ todo # <<>> /\ Head(todo) # "socket"
      /\ UNCHANGED <<given, todo, fd, sock, socket, stored>>
  BY DEF Created, Last, descriptor
<1>2. OpeningInv /\ fd = "open" /\ sock = "fd"
  BY <1>1, OnOpenSocket DEF Opens
<1>3. OpeningInv'
  BY <1>1, <1>2 DEF OpeningInv, CallsInOrder, DescriptorInTurn, LeftOrDone, Left, MasterLost, given
<1>4. StoredInv'
  BY <1>1, NothingStored
<1> QED
  BY <1>1, <1>2, <1>3, <1>4
     DEF BtioInv, TypeOK, given, Stages, Opens, NoDescriptorLeft, LiveAsAsked, MasterLost

\* ... or -1, and then there is none.
LEMMA NotCreatedKeeps ==
  ASSUME BtioInv, NotCreated
  PROVE  BtioInv'
<1>1. /\ stage = "created" /\ stage' = "failed" /\ sock = "none"
      /\ UNCHANGED <<given, todo, fd, sock, socket, stored>>
  BY DEF NotCreated, descriptor
<1>2. todo = <<>> /\ fd # "open"
  BY <1>1 DEF BtioInv, Opens
<1>3. StoredInv'
  BY <1>1, NothingStored
<1> QED
  BY <1>1, <1>2, <1>3
     DEF BtioInv, TypeOK, given, Stages, Opens, NoDescriptorLeft, LiveAsAsked, MasterLost

\* bt_io_connect and bt_io_listen give up a socket that create_handle has not
\* closed, or they would not have it.
LEMMA EndingFailsKeeps ==
  ASSUME BtioInv, ConnectFails \/ ListenFails
  PROVE  BtioInv'
<1>1. fd = "open" /\ stage = "created"
  BY OnOpenSocket DEF ConnectFails, ListenFails, Ending, Last, Opens
<1>2. /\ fd' = "closed" /\ sock' = sock /\ stage' = "failed" /\ todo' = <<>>
      /\ UNCHANGED <<given, socket, stored>>
  BY <1>1 DEF ConnectFails, ListenFails, Close
<1>3. StoredInv'
  BY <1>1, <1>2, NothingStored
<1> QED
  BY <1>2, <1>3
     DEF BtioInv, TypeOK, given, Stages, Opens, NoDescriptorLeft, LiveAsAsked, MasterLost

LEMMA ReturnsKeeps ==
  ASSUME BtioInv, Returns
  PROVE  BtioInv'
<1>1. /\ stage = "created" /\ sock = "fd" /\ todo = <<>> /\ stage' = "socket"
      /\ UNCHANGED <<given, todo, fd, sock, socket, stored>>
  BY DEF Returns, descriptor
<1>2. fd = "open"
  BY <1>1 DEF BtioInv, Opens, OpeningInv, DescriptorInTurn, Left, Among
<1>3. StoredInv'
  BY <1>1, NothingStored
<1> QED
  BY <1>1, <1>2, <1>3
     DEF BtioInv, TypeOK, given, Stages, Opens, NoDescriptorLeft, LiveAsAsked, MasterLost

----------------------------------------------------------------------------
(* The steps of a question                                                 *)

LEMMA QuestionsAreCalls == Questions \subseteq SystemCalls \cup Wanted
BY DEF Questions, SystemCalls, Wanted

LEMMA OptionsAreNoCalls == Wanted \cap SystemCalls = {} /\ Questions \ Wanted \subseteq SystemCalls
BY DEF Questions, SystemCalls, Wanted

\* l2cap_get comes to the MTU whoever asks, sco_get if it is Connection, rfcomm_get
\* never.
LEMMA AskedForTheSize ==
  ASSUME owner \in Owners, opts.type \in Types
  PROVE  /\ Asked(owner) \in Seq(Wanted)
         /\ IF TellsSize THEN SizeAhead(Asked(owner)) ELSE SizeBarred(Asked(owner))
<1>1. CASE owner = "Connection"
  <2> DEFINE asked == <<"imtu", "cid">>
  <2>1. asked = Asked(owner) /\ asked \in Seq(Wanted)
    BY <1>1 DEF Asked, Wanted
  <2>2. Len(asked) = 2 /\ asked[1] = "imtu" /\ asked[2] = "cid" /\ 1 \in 1 .. 2 /\ 1 .. 1 = {1}
    OBVIOUS
  <2>3. ASSUME TellsSize  PROVE SizeAhead(asked)
    <3>1. "imtu" \in Supported(opts.type)
      BY <2>3 DEF TellsSize, Supported, Types
    <3> QED
      BY <2>2, <3>1 DEF SizeAhead
  <2>4. ASSUME ~TellsSize  PROVE SizeBarred(asked)
    <3>1. "imtu" \in Wanted \ Supported(opts.type)
      BY <1>1, <2>4 DEF TellsSize, Supported, Wanted
    <3> HIDE DEF asked
    <3>2. \A i \in 1 .. 2 : asked[i] = "imtu" => i \in 1 .. i
      OBVIOUS
    <3> QED
      BY <2>2, <3>1, <3>2 DEF SizeBarred
  <2> QED
    BY <2>1, <2>3, <2>4
<1>2. CASE owner # "Connection"
  <2> DEFINE asked == <<"source", "dest", "cid", "imtu">>
  <2>1. asked = Asked(owner) /\ asked \in Seq(Wanted)
    BY <1>2 DEF Asked, Wanted
  <2>2. /\ Len(asked) = 4 /\ 4 \in 1 .. 4
        /\ asked[1] = "source" /\ asked[2] = "dest" /\ asked[3] = "cid" /\ asked[4] = "imtu"
    OBVIOUS
  <2>3. owner = "Central"
    BY <1>2, BtioAssumption
  <2>4. ASSUME TellsSize  PROVE SizeAhead(asked)
    <3>1. Wanted \ Supported(opts.type) = {}
      BY <2>3, <2>4 DEF TellsSize, Types, Wanted, Supported
    <3> QED
      BY <2>2, <3>1 DEF SizeAhead
  <2>5. ASSUME ~TellsSize  PROVE SizeBarred(asked)
    <3>1. "cid" \in Wanted \ Supported(opts.type)
      BY <2>5 DEF TellsSize, Supported, Wanted
    <3> HIDE DEF asked
    <3>2. \A i \in 1 .. 4 : asked[i] = "imtu" => i = 4
      <4>1. \A i \in 1 .. 4 : i = 1 \/ i = 2 \/ i = 3 \/ i = 4
        OBVIOUS
      <4> QED
        BY <2>2, <4>1
    <3>3. 3 \in 1 .. 4
      OBVIOUS
    <3> QED
      BY <2>2, <3>1, <3>2, <3>3 DEF SizeBarred
  <2> QED
    BY <2>1, <2>4, <2>5
<1> QED
  BY <1>1, <1>2

\* The system calls before that are no options.
LEMMA SizeAfterCalls ==
  ASSUME NEW s \in Seq(Questions \ Wanted), NEW t \in Seq(Wanted)
  PROVE  /\ s \o t \in Seq(Questions)
         /\ OptionsLast(s \o t)
         /\ SizeAhead(t) => SizeAhead(s \o t)
         /\ SizeBarred(t) => SizeBarred(s \o t)
<1> DEFINE m == Len(s)  n == Len(t)  u == s \o t
<1>1. /\ m \in Nat /\ n \in Nat /\ u \in Seq(Questions) /\ Len(u) = m + n
      /\ \A i \in 1 .. m + n : u[i] = IF i <= m THEN s[i] ELSE t[i - m]
      /\ \A i \in 1 .. m : s[i] \in SystemCalls /\ s[i] \notin Wanted
      /\ \A i \in 1 .. n : t[i] \in Wanted /\ t[i] \notin SystemCalls
  <2>1. s \in Seq(Questions) /\ t \in Seq(Questions)
    <3>1. Questions \ Wanted \subseteq Questions /\ Wanted \subseteq Questions
      BY DEF Questions
    <3> QED
      BY <3>1, SeqMonotonic
  <2>2. \A i \in 1 .. m : s[i] \in Questions \ Wanted
    BY ElementOfSeq
  <2>3. \A i \in 1 .. n : t[i] \in Wanted
    BY ElementOfSeq
  <2> QED
    BY <2>1, <2>2, <2>3, OptionsAreNoCalls, ConcatProperties, LenProperties
<1> HIDE DEF u
<1>2. \A i \in 1 .. m + n : i <= m \/ i - m \in 1 .. n
  BY <1>1
<1>3. OptionsLast(u)
  <2> SUFFICES ASSUME NEW i \in 1 .. m + n, u[i] \in SystemCalls, NEW j \in 1 .. i
               PROVE  u[j] \in SystemCalls
    BY <1>1 DEF OptionsLast
  <2>1. i <= m
    BY <1>1, <1>2
  <2>2. j \in 1 .. m /\ j \in 1 .. m + n /\ j <= m
    BY <1>1, <2>1
  <2> QED
    BY <1>1, <2>2
<1>4. ASSUME SizeAhead(t)  PROVE SizeAhead(u)
  <2>1. PICK i \in 1 .. n : /\ t[i] = "imtu"
                            /\ \A j \in 1 .. i : t[j] \notin Wanted \ Supported(opts.type)
    BY <1>4 DEF SizeAhead
  <2>2. i + m \in 1 .. m + n /\ u[i + m] = "imtu"
    <3>1. i + m \in 1 .. m + n /\ ~(i + m <= m) /\ (i + m) - m = i
      BY <1>1, <2>1
    <3> QED
      BY <1>1, <2>1, <3>1
  <2>3. ASSUME NEW j \in 1 .. i + m  PROVE u[j] \notin Wanted \ Supported(opts.type)
    <3>1. j \in 1 .. m + n
      BY <1>1, <2>1
    <3>2. CASE j <= m
      BY <1>1, <3>1, <3>2
    <3>3. CASE ~(j <= m)
      <4>1. j - m \in 1 .. i /\ u[j] = t[j - m]
        BY <1>1, <2>1, <3>1, <3>3
      <4> QED
        BY <2>1, <4>1
    <3> QED
      BY <3>2, <3>3
  <2> QED
    BY <1>1, <2>2, <2>3 DEF SizeAhead
<1>5. ASSUME SizeBarred(t)  PROVE SizeBarred(u)
  <2> SUFFICES ASSUME NEW i \in 1 .. m + n, u[i] = "imtu"
               PROVE  \E j \in 1 .. i : u[j] \in Wanted \ Supported(opts.type)
    BY <1>1 DEF SizeBarred
  <2>1. ~(i <= m)
    BY <1>1 DEF Wanted
  <2>2. i - m \in 1 .. n /\ t[i - m] = "imtu"
    BY <1>1, <1>2, <2>1
  <2>3. PICK j \in 1 .. i - m : t[j] \in Wanted \ Supported(opts.type)
    BY <1>5, <2>2 DEF SizeBarred
  <2>4. /\ j + m \in 1 .. i /\ j + m \in 1 .. m + n
        /\ ~(j + m <= m) /\ (j + m) - m = j
    BY <1>1, <2>2, <2>3
  <2> QED
    BY <1>1, <2>3, <2>4
<1> QED
  BY <1>1, <1>3, <1>4, <1>5 DEF u

LEMMA GettingTheSize ==
  ASSUME TypeOK
  PROVE  LET list == Getting(owner, opts)
         IN  /\ list \in Seq(Questions)
             /\ OptionsLast(list)
             /\ IF TellsSize THEN SizeAhead(list) ELSE SizeBarred(list)
<1> DEFINE A == <<"getDomain", "getProtocol">>
           B == If(opts.type # "RFCOMM", <<"getOptions">>)
           C == <<"getPeers">>
           Q == Questions \ Wanted
<1>1. A \in Seq(Q) /\ C \in Seq(Q)
  BY DEF Questions, Wanted
<1>2. B \in Seq(Q)
  <2>1. <<"getOptions">> \in Seq(Q) /\ <<>> \in Seq(Q)
    BY DEF Questions, Wanted
  <2> QED
    BY <2>1 DEF If
<1>3. Getting(owner, opts) = A \o B \o C \o Asked(owner)
  BY DEF Getting
<1>4. /\ Asked(owner) \in Seq(Wanted)
      /\ IF TellsSize THEN SizeAhead(Asked(owner)) ELSE SizeBarred(Asked(owner))
  BY AskedForTheSize, TypesOfOptions DEF TypeOK
<1> HIDE DEF A, B, C, Q
<1>5. A \o B \in Seq(Q)
  BY <1>1, <1>2, ConcatProperties
<1>6. A \o B \o C \in Seq(Q)
  BY <1>1, <1>5, ConcatProperties
<1> QED
  BY <1>3, <1>4, <1>6, SizeAfterCalls DEF Q

\* What has been asked is not in the way of what is still to come.
LEMMA RestOfQuestions ==
  ASSUME NEW list \in Seq(Questions), list # <<>>
  PROVE  /\ Head(list) \in Questions /\ Tail(list) \in Seq(Questions)
         /\ OptionsLast(list) => OptionsLast(Tail(list))
         /\ OptionsLast(list) /\ Head(list) \notin SystemCalls =>
              \A i \in 1 .. Len(list) : list[i] \notin SystemCalls
         /\ (\A i \in 1 .. Len(list) : list[i] \notin SystemCalls) =>
              /\ Head(list) \notin SystemCalls
              /\ \A i \in 1 .. Len(Tail(list)) : Tail(list)[i] \notin SystemCalls
         /\ SizeAhead(list) =>
              /\ Head(list) \notin Wanted \ Supported(opts.type)
              /\ Head(list) = "imtu" \/ SizeAhead(Tail(list))
         /\ SizeBarred(list) =>
              \/ Head(list) \in Wanted \ Supported(opts.type)
              \/ Head(list) # "imtu" /\ SizeBarred(Tail(list))
<1> DEFINE n == Len(list)  rest == Tail(list)  Unknown == Wanted \ Supported(opts.type)
<1>1. /\ n \in Nat \ {0} /\ Head(list) = list[1] /\ Len(rest) = n - 1 /\ 1 \in 1 .. n
      /\ Head(list) \in Questions /\ rest \in Seq(Questions)
      /\ \A i \in 1 .. n - 1 : rest[i] = list[i + 1] /\ i + 1 \in 1 .. n
  BY HeadTailProperties, EmptySeq
<1> HIDE DEF rest, Unknown
<1>2. ASSUME OptionsLast(list)  PROVE OptionsLast(rest)
  <2> SUFFICES ASSUME NEW i \in 1 .. n - 1, rest[i] \in SystemCalls, NEW j \in 1 .. i
               PROVE  rest[j] \in SystemCalls
    BY <1>1 DEF OptionsLast
  <2>1. j \in 1 .. n - 1 /\ j + 1 \in 1 .. i + 1
    BY <1>1
  <2> QED
    BY <1>1, <1>2, <2>1 DEF OptionsLast
<1>3. ASSUME OptionsLast(list), Head(list) \notin SystemCalls, NEW i \in 1 .. n
      PROVE  list[i] \notin SystemCalls
  <2>1. 1 \in 1 .. i
    BY <1>1
  <2> QED
    BY <1>1, <1>3, <2>1 DEF OptionsLast
<1>4. ASSUME SizeAhead(list)
      PROVE  Head(list) \notin Unknown /\ (Head(list) = "imtu" \/ SizeAhead(rest))
  <2>1. PICK i \in 1 .. n : list[i] = "imtu" /\ \A j \in 1 .. i : list[j] \notin Unknown
    BY <1>4 DEF SizeAhead, Unknown
  <2>2. Head(list) \notin Unknown
    BY <1>1, <2>1
  <2>3. CASE i = 1
    BY <1>1, <2>1, <2>2, <2>3
  <2>4. CASE i # 1
    <3>1. i - 1 \in 1 .. n - 1 /\ rest[i - 1] = "imtu"
      <4>1. i - 1 \in 1 .. n - 1 /\ (i - 1) + 1 = i
        BY <1>1, <2>1, <2>4
      <4> QED
        BY <1>1, <2>1, <4>1
    <3>2. ASSUME NEW j \in 1 .. i - 1  PROVE rest[j] \notin Unknown
      <4>1. j \in 1 .. n - 1 /\ j + 1 \in 1 .. i
        BY <1>1, <2>1
      <4> QED
        BY <1>1, <2>1, <4>1
    <3> QED
      BY <1>1, <2>2, <3>1, <3>2 DEF SizeAhead, Unknown
  <2> QED
    BY <2>3, <2>4
<1>5. ASSUME SizeBarred(list), Head(list) \notin Unknown
      PROVE  Head(list) # "imtu" /\ SizeBarred(rest)
  <2>1. ASSUME NEW i \in 1 .. n, list[i] = "imtu"
        PROVE  \E j \in 2 .. i : list[j] \in Unknown
    <3>1. PICK j \in 1 .. i : list[j] \in Unknown
      BY <1>5, <2>1 DEF SizeBarred, Unknown
    <3>2. j # 1
      BY <1>1, <1>5, <3>1
    <3>3. j \in 2 .. i
      BY <3>1, <3>2
    <3> QED
      BY <3>1, <3>3
  <2>2. Head(list) # "imtu"
    <3>1. 2 .. 1 = {}
      OBVIOUS
    <3> QED
      BY <1>1, <2>1, <3>1
  <2>3. ASSUME NEW i \in 1 .. n - 1, rest[i] = "imtu"
        PROVE  \E j \in 1 .. i : rest[j] \in Unknown
    <3>1. PICK j \in 2 .. i + 1 : list[j] \in Unknown
      BY <1>1, <2>1, <2>3
    <3>2. j - 1 \in 1 .. i /\ j - 1 \in 1 .. n - 1 /\ (j - 1) + 1 = j
      BY <1>1, <3>1
    <3> QED
      BY <1>1, <3>1, <3>2
  <2> QED
    BY <1>1, <2>2, <2>3 DEF SizeBarred, Unknown
<1>6. ASSUME \A i \in 1 .. n : list[i] \notin SystemCalls
      PROVE  Head(list) \notin SystemCalls /\ \A i \in 1 .. n - 1 : rest[i] \notin SystemCalls
  BY <1>1, <1>6
<1> QED
  BY <1>1, <1>2, <1>3, <1>4, <1>5, <1>6 DEF rest, Unknown

LEMMA ConnectedKeeps ==
  ASSUME BtioInv, Connected
  PROVE  BtioInv'
<1>1. /\ stage = "socket" /\ stage' = "asking" /\ todo' = Getting(owner, opts)
      /\ UNCHANGED <<given, fd, sock, socket, stored>> /\ TypeOK /\ StoredInv /\ stored = {}
  BY DEF BtioInv, StoredInv, Connected, descriptor
<1>2. /\ todo' \in Seq(Questions) /\ OptionsLast(todo)' /\ TellsSize' = TellsSize
      /\ IF TellsSize THEN SizeAhead(todo)' ELSE SizeBarred(todo)'
  BY <1>1, GettingTheSize DEF given, TellsSize, SizeAhead, SizeBarred, OptionsLast
<1>3. todo' \in Seq(SystemCalls \cup Wanted)
  BY <1>2, SeqMonotonic, QuestionsAreCalls
<1>4. TypeOK'
  BY <1>1, <1>3 DEF TypeOK, given, Stages
<1>5. NoDescriptorLeft' /\ LiveAsAsked'
  BY <1>1 DEF BtioInv, given, Stages, NoDescriptorLeft, LiveAsAsked, MasterLost
<1>6. AskingInv' /\ StoredInv'
  BY <1>1, <1>2 DEF AskingInv, StoredInv
<1> QED
  BY <1>1, <1>4, <1>5, <1>6 DEF BtioInv, Opens

\* A question has been asked and answered, by the kernel or from the options.
LEMMA AskedOnce ==
  ASSUME BtioInv, stage = "asking", todo # <<>>, todo' = Tail(todo),
         UNCHANGED <<given, fd, sock, stage, socket>>,
         \/ Head(todo) \in SystemCalls /\ stored' = stored
         \/ Head(todo) \in Supported(opts.type) /\ stored' = stored \cup {Head(todo)}
  PROVE  BtioInv'
<1>1. /\ TypeOK /\ AskingInv /\ StoredInv /\ todo \in Seq(Questions)
      /\ Supported(opts.type) \subseteq Wanted
  <2>1. opts.type \in Types
    BY TypesOfOptions DEF BtioInv, TypeOK
  <2> QED
    BY <2>1 DEF BtioInv, AskingInv, Supported, Wanted, Types
<1>2. /\ todo' \in Seq(Questions) /\ OptionsLast(Tail(todo))
      /\ stored' # {} => \A i \in 1 .. Len(Tail(todo)) : Tail(todo)[i] \notin SystemCalls
  <2>1. CASE Head(todo) \in SystemCalls /\ stored' = stored
    BY <1>1, <2>1, RestOfQuestions DEF AskingInv
  <2>2. CASE Head(todo) \in Supported(opts.type)
    <3>1. Head(todo) \notin SystemCalls
      BY <1>1, <2>2, OptionsAreNoCalls
    <3> QED
      BY <1>1, <3>1, RestOfQuestions DEF AskingInv
  <2> QED
    BY <2>1, <2>2
<1>3. TellsSize => "imtu" \in stored' \/ SizeAhead(Tail(todo))
  <2> SUFFICES ASSUME TellsSize, "imtu" \notin stored
               PROVE  "imtu" \in stored' \/ SizeAhead(Tail(todo))
    OBVIOUS
  <2>1. SizeAhead(todo)
    BY <1>1 DEF AskingInv
  <2>2. CASE Head(todo) = "imtu"
    BY <2>2 DEF SystemCalls
  <2>3. CASE Head(todo) # "imtu"
    BY <1>1, <2>1, <2>3, RestOfQuestions
  <2> QED
    BY <2>2, <2>3
<1>4. ~TellsSize => "imtu" \notin stored' /\ SizeBarred(Tail(todo))
  <2> SUFFICES ASSUME ~TellsSize  PROVE "imtu" \notin stored' /\ SizeBarred(Tail(todo))
    OBVIOUS
  <2>1. SizeBarred(todo) /\ "imtu" \notin stored
    BY <1>1 DEF AskingInv, StoredInv
  <2>2. Head(todo) \notin Wanted \ Supported(opts.type)
    BY OptionsAreNoCalls
  <2>3. Head(todo) # "imtu" /\ SizeBarred(Tail(todo))
    BY <1>1, <2>1, <2>2, RestOfQuestions
  <2> QED
    BY <2>1, <2>3
<1>5. TellsSize' = TellsSize /\ opts' = opts
  BY DEF TellsSize, given
<1>6. AskingInv'
  BY <1>2, <1>3, <1>4, <1>5 DEF AskingInv, SizeAhead, SizeBarred, OptionsLast
<1>7. StoredInv'
  BY <1>1, <1>4, <1>5 DEF StoredInv
<1>8. todo' \in Seq(SystemCalls \cup Wanted)
  BY <1>2, SeqMonotonic, QuestionsAreCalls
<1>9. TypeOK'
  BY <1>1, <1>8 DEF TypeOK, given
<1>10. NoDescriptorLeft' /\ LiveAsAsked'
  BY DEF BtioInv, given, NoDescriptorLeft, LiveAsAsked, MasterLost
<1>11. stage' = "asking"
  OBVIOUS
<1> QED
  BY <1>6, <1>7, <1>9, <1>10, <1>11 DEF BtioInv, Opens

LEMMA AskingKeeps ==
  ASSUME BtioInv, GetSucceeds \/ Store
  PROVE  BtioInv'
BY AskedOnce DEF GetSucceeds, Store, Asking, descriptor

LEMMA GetEnds ==
  ASSUME BtioInv, GetFails \/ Unsupported \/ Answered
  PROVE  BtioInv'
<1>1. /\ stage = "asking" /\ TypeOK /\ AskingInv /\ StoredInv /\ todo \in Seq(Questions)
      /\ UNCHANGED <<given, fd, sock, socket, stored>> /\ todo' = <<>>
  BY DEF BtioInv, AskingInv, GetFails, Unsupported, Answered, Asking, descriptor
<1>2. TypeOK'
  BY <1>1 DEF TypeOK, Stages, given, GetFails, Unsupported, Answered
<1>3. NoDescriptorLeft' /\ LiveAsAsked'
  BY <1>1 DEF BtioInv, GetFails, Unsupported, Answered, given, Stages, NoDescriptorLeft,
              LiveAsAsked, MasterLost
<1>4. TellsSize' = TellsSize /\ opts' = opts
  BY <1>1 DEF TellsSize, given
<1>5. CASE GetFails
  <2>1. stored = {}
    BY <1>1, <1>5, RestOfQuestions DEF GetFails, Asking, AskingInv
  <2>2. StoredInv'
    BY <1>1, <1>4, <1>5, <2>1 DEF GetFails, StoredInv
  <2> QED
    BY <1>1, <1>2, <1>3, <1>5, <2>2 DEF GetFails, BtioInv, Opens
<1>6. CASE Unsupported
  <2>1. TellsSize => "imtu" \in stored
    BY <1>1, <1>6, RestOfQuestions DEF Unsupported, Asking, AskingInv
  <2>2. StoredInv'
    BY <1>1, <1>4, <1>6 DEF Unsupported, StoredInv
  <2>3. AskingInv'
    <3>1. Len(todo') = 0 /\ 1 .. 0 = {} /\ todo' \in Seq(Questions)
      BY <1>1
    <3> QED
      BY <1>1, <1>4, <2>1, <3>1 DEF AskingInv, OptionsLast, SizeBarred
  <2> QED
    BY <1>1, <1>2, <1>3, <1>6, <2>2, <2>3 DEF Unsupported, BtioInv, Opens
<1>7. CASE Answered
  <2>1. TellsSize => "imtu" \in stored
    BY <1>1, <1>7 DEF Answered, AskingInv, SizeAhead
  <2>2. StoredInv'
    BY <1>1, <1>4, <1>7, <2>1 DEF Answered, StoredInv
  <2> QED
    BY <1>1, <1>2, <1>3, <1>7, <2>2 DEF Answered, BtioInv, Opens
<1> QED
  BY <1>5, <1>6, <1>7

----------------------------------------------------------------------------
(* Theorems                                                                *)

THEOREM BtioInvariant == Spec => []BtioInv
<1>1. ASSUME BtioInv, [Next]_vars  PROVE BtioInv'
  <2>1. CASE UNCHANGED vars
    BY <1>1, <2>1
       DEF vars, BtioInv, TypeOK, Opens, OpeningInv, CallsInOrder, DescriptorInTurn, LeftOrDone,
           Left, AskingInv, StoredInv, TellsSize, SizeAhead, SizeBarred, OptionsLast,
           NoDescriptorLeft, LiveAsAsked, MasterLost
  <2> QED
    BY <1>1, <2>1, OpenKeeps, OpenFailsKeeps, SecurityUnknownKeeps, MasterAlreadyKeeps,
       SucceedsKeeps, SettingFailsKeeps, CreatedKeeps, NotCreatedKeeps, EndingFailsKeeps,
       ReturnsKeeps, ConnectedKeeps, AskingKeeps, GetEnds DEF Next
<1> QED
  BY <1>1, InitBtioInv, PTL DEF Spec

\* Every variable keeps its type.
THEOREM BtioTypeCorrect == Spec => []TypeOK
<1>1. BtioInv => TypeOK
  BY DEF BtioInv
<1> QED
  BY <1>1, BtioInvariant, PTL

\* bt_io_connect and bt_io_listen leak no descriptor and close none twice, whatever
\* options they are given, whichever system call fails and whoever made it.
THEOREM NoDescriptorLeaks == Spec => []NoDescriptorLeft
<1>1. BtioInv => NoDescriptorLeft
  BY DEF BtioInv
<1> QED
  BY <1>1, BtioInvariant, PTL

\* They connect or listen on no socket that lacks an option it was to have, but
\* for the flag of the master on an old kernel.
THEOREM LiveSocketsAsAsked == Spec => []LiveAsAsked
<1>1. BtioInv => LiveAsAsked
  BY DEF BtioInv
<1> QED
  BY <1>1, BtioInvariant, PTL

\* However bt_io_get ends, its caller knows the size its buffers are made of, but
\* in the cases of NotTold, and in these it does not.
THEOREM SizesAreKnown == Spec => []SizeIsKnown
<1>1. ASSUME BtioInv  PROVE SizeIsKnown
  <2>1. "cid" \in stored => opts.type = "L2CAP"
    <3>1. opts.type \in Types
      BY <1>1, TypesOfOptions DEF BtioInv, TypeOK
    <3> QED
      BY <1>1, <3>1 DEF BtioInv, StoredInv, Supported, Types
  <2>2. CASE stage = "answered"
    BY <1>1, <2>1, <2>2 DEF BtioInv, StoredInv, TellsSize, SizeIsKnown, NotTold, BufferSize
  <2>3. CASE stage = "unanswered"
    BY <1>1, <2>3 DEF BtioInv, StoredInv, SizeIsKnown, NotTold, BufferSize
  <2> QED
    BY <2>2, <2>3 DEF SizeIsKnown
<1> QED
  BY <1>1, BtioInvariant, PTL

=============================================================================
