--------------------------- MODULE PerfjailProofs ---------------------------
(***************************************************************************)
(* The builder, for any number of calls and any arguments: what spawn      *)
(* finds, and which of the limits will be enforced.                        *)
(***************************************************************************)
EXTENDS Perfjail, SettingsProofs, SequenceTheorems

History ==
  /\ spawned \in BOOLEAN /\ calls \in 0..MaxMethods
  /\ given = [m \in Method |-> given[m]]
  /\ \A m \in Method : given[m] \in Seq(Argument(m))

\* The five parts of SettingsMatchCalls.
ArgsMatch == jail.args = <<"program">> \o given["args"]
DirMatches ==
  jail.working_dir = IF Called("working_dir") THEN Latest("working_dir") ELSE "inherited"
StreamsMatch == jail.streams = [stream \in {s \in Stream : Called(s)} |-> Latest(stream)]
LimitsMatch ==
  jail.limits = [kind \in {k \in Limit : Called(k)} |->
                  IF kind = "instruction_count" THEN instruction_count_limit(Latest(kind))
                  ELSE Latest(kind)]
FeaturesMatch ==
  jail.features = {f \in Feature : (f = "PERF" /\ Called("instruction_count"))
                                   \/ (\E set \in Range(given["features"]) : f \in set)}

BuilderInv ==
  /\ Whole(jail) /\ History
  /\ ArgsMatch /\ DirMatches /\ StreamsMatch /\ LimitsMatch /\ FeaturesMatch

-----------------------------------------------------------------------------
(* The history.                                                            *)

LEMMA MethodsApart ==
  /\ \A m \in Stream : m \in Method /\ Argument(m) = Fds /\ m \notin Limit
                       /\ m \notin {"args", "working_dir", "features"}
  /\ \A m \in Limit : m \in Method /\ m \notin {"args", "working_dir", "features"}
  /\ \A m \in TimeLimit \cup {"instruction_count"} : m \in Limit /\ Argument(m) = Durations
  /\ "memory" \in Limit /\ Argument("memory") = Sizes
  /\ "args" \in Method /\ Argument("args") = Args
  /\ "working_dir" \in Method /\ Argument("working_dir") = {"dir"}
  /\ "features" \in Method /\ Argument("features") = SUBSET Feature
<1> USE DEF Method, Stream, Limit, TimeLimit, Argument
<1>1. ASSUME NEW m \in Stream
      PROVE  m \in Method /\ Argument(m) = Fds /\ m \notin Limit
             /\ m \notin {"args", "working_dir", "features"}
  OBVIOUS
<1>2. ASSUME NEW m \in Limit PROVE m \in Method /\ m \notin {"args", "working_dir", "features"}
  OBVIOUS
<1>3. ASSUME NEW m \in TimeLimit \cup {"instruction_count"}
      PROVE  m \in Limit /\ Argument(m) = Durations
  OBVIOUS
<1>4. "memory" \in Limit /\ Argument("memory") = Sizes
  OBVIOUS
<1>5. "args" \in Method /\ Argument("args") = Args
  OBVIOUS
<1>6. /\ "working_dir" \in Method /\ Argument("working_dir") = {"dir"}
      /\ "features" \in Method /\ Argument("features") = SUBSET Feature
  OBVIOUS
<1> QED
  BY <1>1, <1>2, <1>3, <1>4, <1>5, <1>6

\* One more argument is the latest.
LEMMA OneMore ==
  ASSUME NEW S, NEW s \in Seq(S), NEW v \in S
  PROVE  /\ s \o <<v>> \in Seq(S) /\ s \o <<v>> # <<>>
         /\ (s \o <<v>>)[Len(s \o <<v>>)] = v
         /\ Range(s \o <<v>>) = Range(s) \cup {v}
<1> DEFINE t == s \o <<v>>
<1>1. /\ t \in Seq(S) /\ Len(t) = Len(s) + 1 /\ Len(s) \in Nat
      /\ DOMAIN s = 1..Len(s) /\ DOMAIN t = 1..Len(t)
      /\ \A i \in 1..Len(s) : t[i] = s[i]
      /\ t[Len(s) + 1] = v
  OBVIOUS
<1> HIDE DEF t
<1>2. t # <<>>
  BY <1>1
<1>3. Range(t) = Range(s) \cup {v}
  <2>1. ASSUME NEW x \in Range(t) PROVE x \in Range(s) \cup {v}
    <3>1. PICK i \in 1..Len(t) : x = t[i]
      BY <1>1 DEF Range
    <3>2. i \in 1..Len(s) \/ i = Len(s) + 1
      BY <1>1
    <3> QED
      BY <1>1, <3>1, <3>2 DEF Range
  <2>2. ASSUME NEW x \in Range(s) \cup {v} PROVE x \in Range(t)
    <3>1. CASE x \in Range(s)
      <4>1. PICK i \in 1..Len(s) : x = s[i]
        BY <1>1, <3>1 DEF Range
      <4>2. i \in DOMAIN t /\ t[i] = x
        BY <1>1, <4>1
      <4> QED
        BY <4>2 DEF Range
    <3>2. CASE x = v
      <4>1. Len(s) + 1 \in DOMAIN t
        BY <1>1
      <4> QED
        BY <1>1, <3>2, <4>1 DEF Range
    <3> QED
      BY <3>1, <3>2
  <2> QED
    BY <2>1, <2>2
<1> QED
  BY <1>1, <1>2, <1>3 DEF t

\* A call adds to what its method has been given, and to nothing else.
LEMMA CallKeeps ==
  ASSUME History, NEW m \in Method, NEW a \in Seq(Argument(m)), NEW result, Call(m, a, result)
  PROVE  /\ History' /\ jail' = result
         /\ given'[m] = given[m] \o a
         /\ \A n \in Method \ {m} : given'[n] = given[n]
<1>1. /\ calls < MaxMethods /\ jail' = result /\ calls' = calls + 1
      /\ given' = [given EXCEPT ![m] = given[m] \o a] /\ UNCHANGED spawned
  BY DEF Call
<1>2. calls' \in 0..MaxMethods
  BY <1>1, BuilderAssumption DEF History
<1>3. given[m] \o a \in Seq(Argument(m))
  <2>1. given[m] \in Seq(Argument(m))
    BY DEF History
  <2> QED
    BY <2>1, Joined
<1> DEFINE more == given[m] \o a
<1> HIDE DEF more
<1>4. given' = [n \in Method |-> IF n = m THEN more ELSE given[n]]
  BY <1>1 DEF History, more
<1>5. given'[m] = more /\ \A n \in Method \ {m} : given'[n] = given[n]
  BY <1>4
<1>6. \A n \in Method : given'[n] \in Seq(Argument(n))
  BY <1>3, <1>5 DEF History, more
<1>7. given' = [n \in Method |-> given'[n]]
  BY <1>4
<1> QED
  BY <1>1, <1>2, <1>5, <1>6, <1>7 DEF History, more

LEMMA CallOne ==
  ASSUME History, NEW m \in Method, NEW v \in Argument(m), NEW result, Call(m, <<v>>, result)
  PROVE  /\ History' /\ jail' = result
         /\ given'[m] # <<>> /\ given'[m][Len(given'[m])] = v
         /\ Range(given'[m]) = Range(given[m]) \cup {v}
         /\ \A n \in Method \ {m} : given'[n] = given[n]
<1>1. <<v>> \in Seq(Argument(m)) /\ given[m] \in Seq(Argument(m))
  BY DEF History
<1>2. /\ History' /\ jail' = result /\ given'[m] = given[m] \o <<v>>
      /\ \A n \in Method \ {m} : given'[n] = given[n]
  BY <1>1, CallKeeps
<1> DEFINE s == given[m]
           t == s \o <<v>>
<1>3. t # <<>> /\ t[Len(t)] = v /\ Range(t) = Range(s) \cup {v}
  BY <1>1, OneMore
<1> HIDE DEF s, t
<1>4. given'[m] = t /\ given[m] = s
  BY <1>2 DEF s, t
<1> QED
  BY <1>2, <1>3, <1>4

-----------------------------------------------------------------------------
(* What a call of each kind does to each part.                             *)

\* The parts a call does not concern.
LEMMA ArgsKept ==
  ASSUME ArgsMatch, jail'.args = jail.args, given'["args"] = given["args"]
  PROVE  ArgsMatch'
BY DEF ArgsMatch

LEMMA DirKept ==
  ASSUME DirMatches, jail'.working_dir = jail.working_dir,
         given'["working_dir"] = given["working_dir"]
  PROVE  DirMatches'
BY DEF DirMatches, Called, Latest

LEMMA StreamsKept ==
  ASSUME StreamsMatch, jail'.streams = jail.streams,
         \A s \in Stream : given'[s] = given[s]
  PROVE  StreamsMatch'
<1>1. {s \in Stream : Called(s)}' = {s \in Stream : Called(s)}
  BY DEF Called
<1>2. \A s \in Stream : Latest(s)' = Latest(s)
  BY DEF Latest
<1> QED
  BY <1>1, <1>2 DEF StreamsMatch

LEMMA LimitsKept ==
  ASSUME LimitsMatch, jail'.limits = jail.limits,
         \A k \in Limit : given'[k] = given[k]
  PROVE  LimitsMatch'
<1>1. {k \in Limit : Called(k)}' = {k \in Limit : Called(k)}
  BY DEF Called
<1>2. \A k \in Limit : Latest(k)' = Latest(k)
  BY DEF Latest
<1> QED
  BY <1>1, <1>2 DEF LimitsMatch

LEMMA FeaturesKept ==
  ASSUME FeaturesMatch, jail'.features = jail.features,
         given'["features"] = given["features"],
         given'["instruction_count"] = given["instruction_count"]
  PROVE  FeaturesMatch'
BY DEF FeaturesMatch, Called

\* The part it does concern.
LEMMA StreamSet ==
  ASSUME StreamsMatch, NEW m \in Stream, NEW v, jail'.streams = Some(jail.streams, m, v),
         given'[m] # <<>>, given'[m][Len(given'[m])] = v,
         \A n \in Stream \ {m} : given'[n] = given[n]
  PROVE  StreamsMatch'
<1> DEFINE set == {s \in Stream : given[s] # <<>>}
           now == {s \in Stream : given'[s] # <<>>}
<1>1. now = set \cup {m}
  OBVIOUS
<1>2. jail.streams = [s \in set |-> given[s][Len(given[s])]]
  BY DEF StreamsMatch, Called, Latest
<1> HIDE DEF set, now
<1>3. jail'.streams = [s \in set \cup {m} |-> IF s = m THEN v ELSE given[s][Len(given[s])]]
  BY <1>2 DEF Some
<1>4. set \subseteq Stream
  BY DEF set
<1>5. jail'.streams = [s \in now |-> given'[s][Len(given'[s])]]
  BY <1>1, <1>3, <1>4
<1> QED
  BY <1>5 DEF StreamsMatch, Called, Latest, now

Stored(kind, value) ==
  IF kind = "instruction_count" THEN instruction_count_limit(value) ELSE value

LEMMA LimitSet ==
  ASSUME LimitsMatch, NEW m \in Limit, NEW v,
         jail'.limits = Some(jail.limits, m, Stored(m, v)),
         given'[m] # <<>>, given'[m][Len(given'[m])] = v,
         \A n \in Limit \ {m} : given'[n] = given[n]
  PROVE  LimitsMatch'
<1> DEFINE set == {k \in Limit : given[k] # <<>>}
           now == {k \in Limit : given'[k] # <<>>}
<1>1. now = set \cup {m}
  OBVIOUS
<1>2. jail.limits = [k \in set |-> Stored(k, given[k][Len(given[k])])]
  BY DEF LimitsMatch, Called, Latest, Stored
<1> HIDE DEF set, now
<1>3. jail'.limits = [k \in set \cup {m} |-> IF k = m THEN Stored(m, v)
                                             ELSE Stored(k, given[k][Len(given[k])])]
  BY <1>2 DEF Some
<1>4. set \subseteq Limit
  BY DEF set
<1>5. jail'.limits = [k \in now |-> Stored(k, given'[k][Len(given'[k])])]
  BY <1>1, <1>3, <1>4
<1> QED
  BY <1>5 DEF LimitsMatch, Called, Latest, now, Stored

-----------------------------------------------------------------------------
(* The calls.                                                              *)

LEMMA StreamCall ==
  ASSUME BuilderInv, NEW m \in Stream, NEW fd \in Fds, Call(m, <<fd>>, redirect(jail, m, fd))
  PROVE  BuilderInv'
<1>1. /\ Whole(jail) /\ History
      /\ ArgsMatch /\ DirMatches /\ StreamsMatch /\ LimitsMatch /\ FeaturesMatch
  BY DEF BuilderInv
<1>2. m \in Method /\ fd \in Argument(m)
  BY MethodsApart
<1>3. /\ History' /\ jail' = redirect(jail, m, fd)
      /\ given'[m] # <<>> /\ given'[m][Len(given'[m])] = fd
      /\ \A n \in Method \ {m} : given'[n] = given[n]
  BY <1>1, <1>2, CallOne
<1>4. /\ Whole(jail') /\ jail'.streams = Some(jail.streams, m, fd)
      /\ jail'.limits = jail.limits /\ jail'.args = jail.args
      /\ jail'.working_dir = jail.working_dir /\ jail'.features = jail.features
  BY <1>1, <1>3, SetStreams
<1>5. /\ \A n \in Stream \ {m} : given'[n] = given[n]
      /\ \A n \in Limit : given'[n] = given[n]
  BY <1>3, MethodsApart
<1>6. /\ given'["args"] = given["args"] /\ given'["working_dir"] = given["working_dir"]
      /\ given'["features"] = given["features"]
      /\ given'["instruction_count"] = given["instruction_count"]
  BY <1>3, <1>5, MethodsApart DEF Limit
<1>7. StreamsMatch'
  BY <1>1, <1>3, <1>4, <1>5, StreamSet
<1>8. ArgsMatch' /\ DirMatches' /\ LimitsMatch' /\ FeaturesMatch'
  BY <1>1, <1>4, <1>5, <1>6, ArgsKept, DirKept, LimitsKept, FeaturesKept
<1> QED
  BY <1>3, <1>4, <1>7, <1>8 DEF BuilderInv

LEMMA LimitCall ==
  ASSUME BuilderInv, NEW m \in Limit \ {"instruction_count"}, NEW v \in Argument(m),
         Call(m, <<v>>, limit(jail, m, v))
  PROVE  BuilderInv'
<1>1. /\ Whole(jail) /\ History
      /\ ArgsMatch /\ DirMatches /\ StreamsMatch /\ LimitsMatch /\ FeaturesMatch
  BY DEF BuilderInv
<1>2. m \in Method /\ Stored(m, v) = v
  BY MethodsApart DEF Stored
<1>3. /\ History' /\ jail' = limit(jail, m, v)
      /\ given'[m] # <<>> /\ given'[m][Len(given'[m])] = v
      /\ \A n \in Method \ {m} : given'[n] = given[n]
  BY <1>1, <1>2, CallOne
<1>4. /\ Whole(jail') /\ jail'.limits = Some(jail.limits, m, v)
      /\ jail'.streams = jail.streams /\ jail'.args = jail.args
      /\ jail'.working_dir = jail.working_dir /\ jail'.features = jail.features
  BY <1>1, <1>3, SetLimits
<1>5. /\ \A n \in Limit \ {m} : given'[n] = given[n]
      /\ \A n \in Stream : given'[n] = given[n]
  BY <1>3, MethodsApart
<1>6. /\ given'["args"] = given["args"] /\ given'["working_dir"] = given["working_dir"]
      /\ given'["features"] = given["features"]
      /\ given'["instruction_count"] = given["instruction_count"]
  BY <1>3, <1>5, MethodsApart DEF Limit
<1>7. LimitsMatch'
  BY <1>1, <1>2, <1>3, <1>4, <1>5, LimitSet
<1>8. ArgsMatch' /\ DirMatches' /\ StreamsMatch' /\ FeaturesMatch'
  BY <1>1, <1>4, <1>5, <1>6, ArgsKept, DirKept, StreamsKept, FeaturesKept
<1> QED
  BY <1>3, <1>4, <1>7, <1>8 DEF BuilderInv

\* A limit on measured time is stored as a number of instructions, and brings
\* its feature along.
LEMMA MeasuredCall ==
  ASSUME BuilderInv, NEW d \in Durations,
         Call("instruction_count", <<d>>, measured_time_limit(jail, d))
  PROVE  BuilderInv'
<1> DEFINE m == "instruction_count"
           bare == limit(jail, m, Stored(m, d))
<1>1. /\ Whole(jail) /\ History
      /\ ArgsMatch /\ DirMatches /\ StreamsMatch /\ LimitsMatch /\ FeaturesMatch
  BY DEF BuilderInv
<1>2. m \in Limit /\ m \in Method /\ d \in Argument(m)
  BY MethodsApart DEF Limit
<1>3. /\ History' /\ jail' = measured_time_limit(jail, d)
      /\ given'[m] # <<>> /\ given'[m][Len(given'[m])] = d
      /\ \A n \in Method \ {m} : given'[n] = given[n]
  BY <1>1, <1>2, CallOne
<1>4. jail' = features(bare, {"PERF"})
  BY <1>3 DEF measured_time_limit, Stored
<1>5. /\ Whole(bare) /\ bare.limits = Some(jail.limits, m, Stored(m, d))
      /\ bare.streams = jail.streams /\ bare.args = jail.args
      /\ bare.working_dir = jail.working_dir /\ bare.features = jail.features
  BY <1>1, SetLimits
<1> HIDE DEF bare
<1>6. /\ Whole(jail') /\ jail'.limits = Some(jail.limits, m, Stored(m, d))
      /\ jail'.streams = jail.streams /\ jail'.args = jail.args
      /\ jail'.working_dir = jail.working_dir /\ jail'.features = jail.features \cup {"PERF"}
  BY <1>4, <1>5, SetFeatures
<1>7. /\ \A n \in Limit \ {m} : given'[n] = given[n]
      /\ \A n \in Stream : given'[n] = given[n]
  BY <1>3, MethodsApart
<1>8. /\ given'["args"] = given["args"] /\ given'["working_dir"] = given["working_dir"]
      /\ given'["features"] = given["features"]
  BY <1>3, MethodsApart
<1>9. LimitsMatch'
  BY <1>1, <1>2, <1>3, <1>6, <1>7, LimitSet
<1>10. FeaturesMatch'
  <2>1. Called(m)'
    BY <1>3 DEF Called
  <2>2. jail.features \cup {"PERF"}
          = {f \in Feature : f = "PERF" \/ \E set \in Range(given["features"]) : f \in set}
    BY <1>1 DEF FeaturesMatch, Feature
  <2> QED
    BY <2>1, <2>2, <1>6, <1>8 DEF FeaturesMatch
<1>11. ArgsMatch' /\ DirMatches' /\ StreamsMatch'
  BY <1>1, <1>6, <1>7, <1>8, ArgsKept, DirKept, StreamsKept
<1> QED
  BY <1>3, <1>6, <1>9, <1>10, <1>11 DEF BuilderInv

LEMMA FeatureCall ==
  ASSUME BuilderInv, NEW set \in SUBSET Feature, Call("features", <<set>>, features(jail, set))
  PROVE  BuilderInv'
<1> DEFINE m == "features"
<1>1. /\ Whole(jail) /\ History
      /\ ArgsMatch /\ DirMatches /\ StreamsMatch /\ LimitsMatch /\ FeaturesMatch
  BY DEF BuilderInv
<1>2. m \in Method /\ set \in Argument(m)
  BY MethodsApart
<1>3. /\ History' /\ jail' = features(jail, set)
      /\ Range(given'[m]) = Range(given[m]) \cup {set}
      /\ \A n \in Method \ {m} : given'[n] = given[n]
  BY <1>1, <1>2, CallOne
<1>4. /\ Whole(jail') /\ jail'.features = jail.features \cup set
      /\ jail'.streams = jail.streams /\ jail'.args = jail.args
      /\ jail'.working_dir = jail.working_dir /\ jail'.limits = jail.limits
  BY <1>1, <1>3, SetFeatures
<1>5. /\ \A n \in Limit : given'[n] = given[n]
      /\ \A n \in Stream : given'[n] = given[n]
  BY <1>3, MethodsApart
<1>6. /\ given'["args"] = given["args"] /\ given'["working_dir"] = given["working_dir"]
      /\ given'["instruction_count"] = given["instruction_count"]
  BY <1>3, <1>5, MethodsApart DEF Limit
<1>7. FeaturesMatch'
  BY <1>1, <1>3, <1>4, <1>6 DEF FeaturesMatch, Called
<1>8. ArgsMatch' /\ DirMatches' /\ StreamsMatch' /\ LimitsMatch'
  BY <1>1, <1>4, <1>5, <1>6, ArgsKept, DirKept, StreamsKept, LimitsKept
<1> QED
  BY <1>3, <1>4, <1>7, <1>8 DEF BuilderInv

LEMMA ArgsCall ==
  ASSUME BuilderInv, NEW a \in Seq(Args), Call("args", a, args(jail, a))
  PROVE  BuilderInv'
<1> DEFINE m == "args"
<1>1. /\ Whole(jail) /\ History
      /\ ArgsMatch /\ DirMatches /\ StreamsMatch /\ LimitsMatch /\ FeaturesMatch
  BY DEF BuilderInv
<1>2. m \in Method /\ a \in Seq(Argument(m)) /\ given[m] \in Seq(Args)
  BY <1>1, MethodsApart DEF History
<1>3. /\ History' /\ jail' = args(jail, a) /\ given'[m] = given[m] \o a
      /\ \A n \in Method \ {m} : given'[n] = given[n]
  BY <1>1, <1>2, CallKeeps
<1>4. /\ Whole(jail') /\ jail'.args = jail.args \o a
      /\ jail'.streams = jail.streams /\ jail'.features = jail.features
      /\ jail'.working_dir = jail.working_dir /\ jail'.limits = jail.limits
  BY <1>1, <1>3, SetArgs
<1>5. /\ \A n \in Limit : given'[n] = given[n]
      /\ \A n \in Stream : given'[n] = given[n]
  BY <1>3, MethodsApart
<1>6. /\ given'["features"] = given["features"] /\ given'["working_dir"] = given["working_dir"]
      /\ given'["instruction_count"] = given["instruction_count"]
  BY <1>3, <1>5, MethodsApart DEF Limit
<1>7. ArgsMatch'
  <2> DEFINE S == Args \cup {"program"}
  <2>1. <<"program">> \in Seq(S) /\ given[m] \in Seq(S) /\ a \in Seq(S)
    BY <1>2
  <2> DEFINE p == <<"program">>
             g == given[m]
  <2>2. p \in Seq(S) /\ g \in Seq(S)
    BY <2>1
  <2> HIDE DEF S, p, g
  <2>3. (p \o g) \o a = p \o (g \o a)
    BY <2>1, <2>2, ConcatAssociative
  <2>4. (<<"program">> \o given[m]) \o a = <<"program">> \o (given[m] \o a)
    BY <2>3 DEF p, g
  <2> QED
    BY <1>1, <1>3, <1>4, <2>4 DEF ArgsMatch
<1>8. DirMatches' /\ StreamsMatch' /\ LimitsMatch' /\ FeaturesMatch'
  BY <1>1, <1>4, <1>5, <1>6, DirKept, StreamsKept, LimitsKept, FeaturesKept
<1> QED
  BY <1>3, <1>4, <1>7, <1>8 DEF BuilderInv

LEMMA DirCall ==
  ASSUME BuilderInv, CallCurrentDir
  PROVE  BuilderInv'
<1> DEFINE m == "working_dir"
<1>1. /\ Whole(jail) /\ History
      /\ ArgsMatch /\ DirMatches /\ StreamsMatch /\ LimitsMatch /\ FeaturesMatch
  BY DEF BuilderInv
<1>2. m \in Method /\ "dir" \in Argument(m)
  BY MethodsApart
<1>3. /\ History' /\ jail' = current_dir(jail, "dir")
      /\ given'[m] # <<>> /\ given'[m][Len(given'[m])] = "dir"
      /\ \A n \in Method \ {m} : given'[n] = given[n]
  BY <1>1, <1>2, CallOne DEF CallCurrentDir
<1>4. /\ Whole(jail') /\ jail'.working_dir = "dir"
      /\ jail'.streams = jail.streams /\ jail'.features = jail.features
      /\ jail'.args = jail.args /\ jail'.limits = jail.limits
  BY <1>1, <1>3, SetDir
<1>5. /\ \A n \in Limit : given'[n] = given[n]
      /\ \A n \in Stream : given'[n] = given[n]
  BY <1>3, MethodsApart
<1>6. /\ given'["features"] = given["features"] /\ given'["args"] = given["args"]
      /\ given'["instruction_count"] = given["instruction_count"]
  BY <1>3, <1>5, MethodsApart DEF Limit
<1>7. DirMatches'
  BY <1>3, <1>4 DEF DirMatches, Called, Latest
<1>8. ArgsMatch' /\ StreamsMatch' /\ LimitsMatch' /\ FeaturesMatch'
  BY <1>1, <1>4, <1>5, <1>6, ArgsKept, StreamsKept, LimitsKept, FeaturesKept
<1> QED
  BY <1>3, <1>4, <1>7, <1>8 DEF BuilderInv

-----------------------------------------------------------------------------
(* The invariant.                                                          *)

LEMMA InitBuilderInv == Init => BuilderInv
<1> SUFFICES ASSUME Init PROVE BuilderInv
  OBVIOUS
<1>1. jail = new /\ spawned = FALSE /\ calls = 0 /\ given = [m \in Method |-> <<>>]
  BY DEF Init
<1>2. /\ Whole(jail) /\ jail.limits = <<>> /\ jail.streams = <<>> /\ jail.args = <<"program">>
      /\ jail.working_dir = "inherited" /\ jail.features = {}
  BY <1>1 DEF new, Whole
<1>3. \A m \in Method : given[m] = <<>> /\ ~Called(m)
  BY <1>1 DEF Called
<1>4. History
  <2>1. calls \in 0..MaxMethods
    BY <1>1, BuilderAssumption
  <2>s. spawned \in BOOLEAN
    BY <1>1, Zenon
  <2>2. given = [m \in Method |-> given[m]]
    BY <1>1
  <2>3. \A m \in Method : given[m] \in Seq(Argument(m))
    <3> SUFFICES ASSUME NEW m \in Method PROVE <<>> \in Seq(Argument(m))
      BY <1>3
    <3> QED
      OBVIOUS
  <2> QED
    BY <2>1, <2>s, <2>2, <2>3 DEF History
<1>5. ArgsMatch
  BY <1>2, <1>3, MethodsApart DEF ArgsMatch
<1>6. DirMatches
  BY <1>2, <1>3, MethodsApart DEF DirMatches
<1>7. StreamsMatch
  <2>1. {s \in Stream : Called(s)} = {}
    BY <1>3, MethodsApart
  <2>2. <<>> = [s \in {} |-> Latest(s)]
    OBVIOUS
  <2> QED
    BY <1>2, <2>1, <2>2 DEF StreamsMatch
<1>8. LimitsMatch
  <2>1. {k \in Limit : Called(k)} = {}
    BY <1>3, MethodsApart
  <2>2. <<>> = [kind \in {} |-> IF kind = "instruction_count"
                                THEN instruction_count_limit(Latest(kind)) ELSE Latest(kind)]
    OBVIOUS
  <2> QED
    BY <1>2, <2>1, <2>2 DEF LimitsMatch
<1>9. FeaturesMatch
  <2>1. ~Called("instruction_count") /\ given["features"] = <<>>
    BY <1>3, MethodsApart DEF Limit
  <2>2. Range(given["features"]) = {}
    BY <2>1 DEF Range
  <2> QED
    BY <1>2, <2>1, <2>2 DEF FeaturesMatch
<1> QED
  BY <1>2, <1>4, <1>5, <1>6, <1>7, <1>8, <1>9 DEF BuilderInv

LEMMA NextBuilderInv == BuilderInv /\ [Next]_vars => BuilderInv'
<1> SUFFICES ASSUME BuilderInv, [Next]_vars PROVE BuilderInv'
  OBVIOUS
<1>1. CASE CallArg
  <2>1. PICK word \in Args : Call("args", <<word>>, arg(jail, word))
    BY <1>1 DEF CallArg
  <2>2. jail.args \in Seq(Args \cup {"program"})
    <3>1. given["args"] \in Seq(Args)
      BY MethodsApart DEF BuilderInv, History
    <3> QED
      BY <3>1 DEF BuilderInv, ArgsMatch
  <2>3. Append(jail.args, word) = jail.args \o <<word>>
    BY <2>2
  <2>4. arg(jail, word) = args(jail, <<word>>)
    BY <2>3, Zenon DEF arg, args
  <2>5. <<word>> \in Seq(Args)
    OBVIOUS
  <2> QED
    BY <2>1, <2>4, <2>5, ArgsCall
<1>2. CASE CallArgs
  <2>1. PICK w1 \in Args, w2 \in Args : Call("args", <<w1, w2>>, args(jail, <<w1, w2>>))
    BY <1>2 DEF CallArgs
  <2>2. <<w1, w2>> \in Seq(Args)
    OBVIOUS
  <2> QED
    BY <2>1, <2>2, ArgsCall
<1>3. CASE CallCurrentDir
  BY <1>3, DirCall
<1>4. CASE CallStdio
  <2>1. PICK fd \in Fds : \/ Call("stdin", <<fd>>, redirect(jail, "stdin", fd))
                          \/ Call("stdout", <<fd>>, redirect(jail, "stdout", fd))
                          \/ Call("stderr", <<fd>>, redirect(jail, "stderr", fd))
    BY <1>4, Zenon DEF CallStdio, stdin, stdout, stderr
  <2>2. "stdin" \in Stream /\ "stdout" \in Stream /\ "stderr" \in Stream
    BY DEF Stream
  <2> QED
    BY <2>1, <2>2, StreamCall
<1>5. CASE CallFeatures
  <2>1. PICK set \in SUBSET Feature : Call("features", <<set>>, features(jail, set))
    BY <1>5 DEF CallFeatures
  <2> QED
    BY <2>1, FeatureCall
<1>6. CASE CallTimeLimit
  <2>1. PICK d \in Durations :
          \/ Call("real_time", <<d>>, limit(jail, "real_time", d))
          \/ Call("user_time", <<d>>, limit(jail, "user_time", d))
          \/ Call("system_time", <<d>>, limit(jail, "system_time", d))
          \/ Call("user_system_time", <<d>>, limit(jail, "user_system_time", d))
    BY <1>6, Zenon
    DEF CallTimeLimit, real_time_limit, user_time_limit, system_time_limit, user_system_time_limit
  <2>2. \A m \in TimeLimit : m \in Limit \ {"instruction_count"} /\ d \in Argument(m)
    BY MethodsApart DEF TimeLimit
  <2>3. \A m \in TimeLimit : Call(m, <<d>>, limit(jail, m, d)) => BuilderInv'
    BY <2>2, LimitCall
  <2>4. /\ "real_time" \in TimeLimit /\ "user_time" \in TimeLimit
        /\ "system_time" \in TimeLimit /\ "user_system_time" \in TimeLimit
    BY DEF TimeLimit
  <2> QED
    BY <2>1, <2>3, <2>4
<1>7. CASE CallMemoryLimit
  <2>1. PICK size \in Sizes : Call("memory", <<size>>, limit(jail, "memory", size))
    BY <1>7, Zenon DEF CallMemoryLimit, memory_limit_kibibytes
  <2>2. "memory" \in Limit \ {"instruction_count"} /\ size \in Argument("memory")
    BY MethodsApart
  <2> QED
    BY <2>1, <2>2, LimitCall
<1>8. CASE CallMeasuredLimit
  BY <1>8, MeasuredCall DEF CallMeasuredLimit
<1>9. CASE UNCHANGED <<jail, calls, given>> /\ spawned' \in BOOLEAN
  <2>1. History'
    BY <1>9 DEF BuilderInv, History
  <2>2. ArgsMatch' /\ DirMatches' /\ FeaturesMatch' /\ Whole(jail)'
    BY <1>9, Zenon
    DEF BuilderInv, ArgsMatch, DirMatches, FeaturesMatch, Whole, Called, Latest
  <2>3. StreamsMatch' /\ LimitsMatch'
    BY <1>9, StreamsKept, LimitsKept DEF BuilderInv
  <2> QED
    BY <2>1, <2>2, <2>3 DEF BuilderInv
<1> QED
  BY <1>1, <1>2, <1>3, <1>4, <1>5, <1>6, <1>7, <1>8, <1>9
  DEF Next, vars, Spawn, BuilderInv, History

\* The settings are always what the calls so far have made of them.
THEOREM BuilderInvariant == Spec => []BuilderInv
<1> QED
  BY InitBuilderInv, NextBuilderInv, PTL DEF Spec

-----------------------------------------------------------------------------
(* What it says of a jail.                                                 *)

\* What was given last is an argument of its method.
LEMMA LatestType ==
  ASSUME History, NEW m \in Method, Called(m)
  PROVE  Latest(m) \in Argument(m)
<1>1. given[m] \in Seq(Argument(m)) /\ given[m] # <<>>
  BY DEF History, Called
<1> DEFINE s == given[m]
<1> HIDE DEF s
<1>2. s \in Seq(Argument(m)) /\ s # <<>>
  BY <1>1 DEF s
<1>3. s[Len(s)] \in Argument(m)
  BY <1>2
<1> QED
  BY <1>3 DEF Latest, s

LEMMA LimitTypes ==
  ASSUME BuilderInv, NEW kind \in DOMAIN jail.limits
  PROVE  /\ kind \in Limit /\ Called(kind) /\ Latest(kind) \in Nat
         /\ kind # "instruction_count" => jail.limits[kind] = Latest(kind)
         /\ kind = "instruction_count" =>
              jail.limits[kind] = instruction_count_limit(Latest(kind))
<1>1. LimitsMatch /\ History
  BY DEF BuilderInv
<1>2. kind \in Limit /\ Called(kind)
  BY <1>1 DEF LimitsMatch
<1>3. Latest(kind) \in Argument(kind)
  BY <1>1, <1>2, LatestType, MethodsApart
<1>4. Argument(kind) \subseteq Nat
  BY <1>2, MethodsApart, BuilderAssumption DEF Limit
<1> QED
  BY <1>1, <1>2, <1>3, <1>4 DEF LimitsMatch

\* The settings of a jail have their types: a limit on measured time, too, is
\* always one an i64 can hold.
THEOREM BuilderTypes == Spec => []TypeOK
<1>1. BuilderInv => TypeOK
  <2> SUFFICES ASSUME BuilderInv PROVE TypeOK
    OBVIOUS
  <2>1. /\ Whole(jail) /\ History
        /\ ArgsMatch /\ DirMatches /\ StreamsMatch /\ LimitsMatch /\ FeaturesMatch
    BY DEF BuilderInv
  <2>2. DOMAIN jail.limits \subseteq Limit
    BY LimitTypes
  <2>3. ASSUME NEW k \in DOMAIN jail.limits
        PROVE  jail.limits[k] \in IF k = "instruction_count" THEN i64 ELSE Nat
    <3>1. CASE k = "instruction_count"
      BY <3>1, LimitTypes, LimitExact
    <3>2. CASE k # "instruction_count"
      BY <3>2, LimitTypes
    <3> QED
      BY <3>1, <3>2
  <2>4. DOMAIN jail.streams \subseteq Stream
    BY <2>1 DEF StreamsMatch
  <2>5. Range(jail.streams) \subseteq Fds
    <3>1. \A s \in DOMAIN jail.streams : s \in Stream /\ Called(s) /\ jail.streams[s] = Latest(s)
      BY <2>1 DEF StreamsMatch
    <3>2. ASSUME NEW s \in DOMAIN jail.streams PROVE jail.streams[s] \in Fds
      BY <2>1, <3>1, LatestType, MethodsApart
    <3> QED
      BY <3>2 DEF Range
  <2>6. jail.features \subseteq Feature
    BY <2>1 DEF FeaturesMatch
  <2>7. jail.args \in Seq(Args \cup {"program"})
    <3>1. given["args"] \in Seq(Args)
      BY <2>1, MethodsApart DEF History
    <3> QED
      BY <2>1, <3>1 DEF ArgsMatch
  <2>8. jail.working_dir \in {"inherited", "dir"}
    BY <2>1, LatestType, MethodsApart DEF DirMatches
  <2>9. DOMAIN given = Method
    BY <2>1 DEF History
  <2> QED
    BY <2>1, <2>2, <2>3, <2>4, <2>5, <2>6, <2>7, <2>8, <2>9 DEF TypeOK, History
<1> QED
  BY <1>1, BuilderInvariant, PTL

\* What spawn finds depends only on what each method was given.
THEOREM SettingsMatch == Spec => []SettingsMatchCalls
<1>1. BuilderInv => SettingsMatchCalls
  BY DEF BuilderInv, SettingsMatchCalls, ArgsMatch, DirMatches, StreamsMatch, LimitsMatch,
         FeaturesMatch
<1> QED
  BY <1>1, BuilderInvariant, PTL

\* The listener of a feature makes its limits enforced.
LEMMA FeatureEnforces ==
  ASSUME NEW f \in jail.features \cap Feature, NEW kind \in LimitsOf(f) \cap DOMAIN jail.limits
  PROVE  kind \in Enforced(jail)
<1>1. Listeners(jail) \in Seq(Listener)
  BY ListenersMade
<1>2. PICK i \in 1..Len(Listeners(jail)) : Listeners(jail)[i] = f
  BY ListenersMade
<1>3. f \in Range(Listeners(jail))
  BY <1>1, <1>2 DEF Range
<1> QED
  BY <1>3 DEF Enforced

\* A limit is left unenforced only if its feature was never asked for, and never
\* the one on measured time.
THEOREM Unenforced == Spec => []UnenforcedLimit
<1>1. BuilderInv => UnenforcedLimit
  <2> SUFFICES ASSUME BuilderInv PROVE UnenforcedLimit
    OBVIOUS
  <2>1. FeaturesMatch
    BY DEF BuilderInv
  <2>2. ASSUME NEW kind \in DOMAIN jail.limits \ Enforced(jail) PROVE kind # "instruction_count"
    <3> SUFFICES ASSUME kind = "instruction_count" PROVE FALSE
      OBVIOUS
    <3>1. Called("instruction_count")
      BY LimitTypes
    <3>2. "PERF" \in jail.features \cap Feature
      BY <2>1, <3>1 DEF FeaturesMatch, Feature
    <3>3. kind \in LimitsOf("PERF")
      BY DEF LimitsOf
    <3> QED
      BY <3>2, <3>3, FeatureEnforces
  <2>3. ASSUME NEW kind \in DOMAIN jail.limits \ Enforced(jail),
               NEW set \in Range(given["features"]),
               NEW f, f = IF kind = "memory" THEN "MEMORY_MEASUREMENT" ELSE "TIME_MEASUREMENT",
               f \in set
        PROVE  FALSE
    <3>1. f \in jail.features \cap Feature
      BY <2>1, <2>3 DEF FeaturesMatch, Feature
    <3>2. kind \in Limit \ {"instruction_count"}
      BY <2>2, LimitTypes
    <3>3. kind \in LimitsOf(f)
      BY <2>3, <3>2 DEF LimitsOf, Limit
    <3> QED
      BY <3>1, <3>3, FeatureEnforces
  <2>4. requires_timeout(jail) <=> Enforced(jail) # {}
    BY DEF requires_timeout, Enforced
  <2> QED
    BY <2>2, <2>3, <2>4 DEF UnenforcedLimit
<1> QED
  BY <1>1, BuilderInvariant, PTL

\* Longer limits on measured time are never fewer instructions, and only one that
\* does not fit becomes negative.
THEOREM OrderKept == Spec => []LimitOrderKept
<1>1. BuilderInv => LimitOrderKept
  <2> DEFINE count == "instruction_count"
             latest == Latest(count)
  <2> SUFFICES ASSUME BuilderInv, NEW d \in Range(given[count])
               PROVE  /\ d <= latest /\ Representable(latest)
                           => instruction_count_limit(d) <= jail.limits[count]
                      /\ jail.limits[count] < 0 => ~Representable(latest)
    BY DEF LimitOrderKept
  <2>1. given[count] \in Seq(Durations) /\ count \in Limit
    BY MethodsApart DEF BuilderInv, History, Limit
  <2>2. PICK i \in DOMAIN given[count] : d = given[count][i]
    BY DEF Range
  <2>3. d \in Nat /\ Called(count)
    <3>1. d \in Durations
      BY <2>1, <2>2
    <3>2. given[count] # <<>>
      BY <2>1, <2>2
    <3> QED
      BY <3>1, <3>2, BuilderAssumption DEF Called
  <2>4. count \in DOMAIN jail.limits
    BY <2>1, <2>3 DEF BuilderInv, LimitsMatch
  <2>5. latest \in Nat /\ jail.limits[count] = instruction_count_limit(latest)
    BY <2>4, LimitTypes
  <2> HIDE DEF latest, count
  <2>6. d <= latest /\ Representable(latest)
          => instruction_count_limit(d) <= instruction_count_limit(latest)
    BY <2>3, <2>5, LimitMonotone
  <2>7. Representable(latest) => instruction_count_limit(latest) \in Nat
    BY <2>5, LimitExact, Millis
  <2> QED
    BY <2>5, <2>6, <2>7
<1> QED
  BY <1>1, BuilderInvariant, PTL
=============================================================================
