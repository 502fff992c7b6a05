---------------------------- MODULE CtrFeatures ----------------------------
(***************************************************************************)
(* From a sample to the input of the click-through rate model, at training *)
(* on the master and at prediction on a worker that received the model as  *)
(* bytes: the unified index (dataset/unified_index.go), Dataset.Get        *)
(* (model/ctr/data.go), the scalers (model/ctr/transformer.go), and Init,  *)
(* Marshal, Unmarshal and BatchPredict of AFM, plain (model/ctr/fm.go) and *)
(* on XLA (model/ctr/fm_xla.go).                                           *)
(*                                                                         *)
(* Numbers are fractions <<n, d>>.  Log1p is a table of the natural        *)
(* logarithm.  A byte stream is the sequence of the values written to it.  *)
(***************************************************************************)
EXTENDS Integers, Sequences, SequencesExt, FiniteSetsExt

CONSTANTS UserNames, ItemNames,    \* sequences: the order of the indexes
          UserLabelNames, ItemLabelNames, \* the labels that are indexed
          UserProfiles,  \* labels a user may have: sequences of [name, value]
          ItemProfiles,  \* [labels |-> .., emb |-> embedding name :> its length]
          EmbeddingNames,
          Log1p,         \* table of log(1 + v), in tenths
          BatchSize,
          SampleSets     \* sets of sequences of pairs <<user, item>>

VARIABLES xla, scale,    \* the build; the parameter AutoScale, {} if not given
          userProfile, itemProfile, \* labels when the model is trained
          samples, embeddingDim,
          trained,       \* the model on the master, NoModel before Fit
          stream,        \* what MarshalModel wrote
          loaded         \* the model UnmarshalModel returned

featureVars == <<xla, scale, userProfile, itemProfile, samples, embeddingDim,
                 trained, stream, loaded>>

NoModel == [none |-> TRUE]
NotId == -1
Whole(n) == <<n, 1>>
Less(a, b) == a[1] * b[2] < b[1] * a[2]
Equal(a, b) == a[1] * b[2] = b[1] * a[2]
Minus(a, b) == <<a[1] * b[2] - b[1] * a[2], a[2] * b[2]>>
Over(a, b) == IF b[1] > 0 THEN <<a[1] * b[2], a[2] * b[1]>> ELSE <<-(a[1] * b[2]), -(a[2] * b[1])>>

-----------------------------------------------------------------------------
(* dataset.UnifiedMapIndex: | user | item | user label | item label |; the *)
(* master indexes no context labels.                                       *)

ToNumber(names, name) ==
  IF \E k \in DOMAIN names : names[k] = name
  THEN (CHOOSE k \in DOMAIN names : names[k] = name) - 1 ELSE NotId
Offset(number, by) == IF number = NotId THEN NotId ELSE number + by

IndexLen(x) == Len(x.users) + Len(x.items) + Len(x.userLabels) + Len(x.itemLabels)
EncodeUser(x, name) == ToNumber(x.users, name)
EncodeItem(x, name) == Offset(ToNumber(x.items, name), Len(x.users))
EncodeUserLabel(x, name) == Offset(ToNumber(x.userLabels, name), Len(x.users) + Len(x.items))

EncodeItemLabel(x, name) ==
  Offset(ToNumber(x.itemLabels, name), Len(x.users) + Len(x.items) + Len(x.userLabels))

-----------------------------------------------------------------------------
(* Scalers: an unfitted MinMaxScaler has min > max. *)

Fitted(s) == s # <<>>

(* <<minimum, maximum>>. *)
MinMaxFit(values) ==
  LET Least(a, b) == IF Less(b, a) THEN b ELSE a
      Most(a, b) == IF Less(a, b) THEN b ELSE a
  IN IF values = <<>> THEN <<>>
     ELSE <<FoldLeft(Least, values[1], values), FoldLeft(Most, values[1], values)>>

MinMaxTransform(s, v) ==
  IF ~Fitted(s) THEN v
  ELSE IF Equal(s[1], s[2]) THEN Whole(1)
  ELSE Over(Minus(v, s[1]), Minus(s[2], s[1]))

(* <<median, Q1, Q3, IQR>>; of no values, and before Fit, all zero. *)
Unfit == <<Whole(0), Whole(0), Whole(0), Whole(0)>>
RobustFit(values) ==
  LET sorted == SortSeq(values, Less)
      n == Len(sorted)
      at(k) == sorted[k + 1]
      median == IF n % 2 = 0
                THEN <<at(n \div 2 - 1)[1] + at(n \div 2)[1], 2>>
                ELSE at(n \div 2)
      q1 == at(n \div 4)
      q3 == at((3 * n) \div 4)
  IN IF n = 0 THEN Unfit
     ELSE <<median, q1, q3, IF Equal(q1, q3) THEN Whole(1) ELSE Minus(q3, q1)>>
RobustTransform(s, v) == IF s[4][1] = 0 THEN v ELSE Over(Minus(v, s[1]), s[4])

Logarithm(v) == Whole(Log1p[IF v[1] < 0 THEN 0 ELSE v[1]])

AutoFit(values) ==
  LET negative == \E k \in DOMAIN values : values[k][1] < 0
      robust == RobustFit(values)
      R(v) == RobustTransform(robust, v)
      Each(Op(_)) == [k \in DOMAIN values |-> Op(values[k])]
  IN IF negative
     THEN [useLog |-> FALSE, minmax |-> MinMaxFit(Each(R)), robust |-> robust]
     ELSE [useLog |-> TRUE, minmax |-> MinMaxFit(Each(Logarithm)), robust |-> Unfit]

AutoTransform(s, v) ==
  MinMaxTransform(s.minmax, IF s.useLog THEN Logarithm(v) ELSE RobustTransform(s.robust, v))

AutoMarshal(s) == <<s.useLog, s.minmax>> \o (IF s.useLog THEN <<>> ELSE <<s.robust>>)
AutoUnmarshal(b) ==
  [useLog |-> b[1], minmax |-> b[2], robust |-> IF b[1] \/ Len(b) < 3 THEN Unfit ELSE b[3]]

-----------------------------------------------------------------------------
(* The training set. *)

Index == [users |-> UserNames, items |-> ItemNames,
          userLabels |-> UserLabelNames, itemLabels |-> ItemLabelNames]

(* UserLabels and ItemLabels hold the labels that are indexed, by number. *)
Encoded(labels, names) ==
  LET Indexed(l) == ToNumber(names, l.name) # NotId
      kept == SelectSeq(labels, Indexed)
  IN [k \in DOMAIN kept |-> <<ToNumber(names, kept[k].name), kept[k].value>>]

(* The embedding dimension most items have, by embedding; ties fall either *)
(* way, the items of other lengths lose their embedding.                   *)
Lengths(e) == {itemProfile[i].emb[e] : i \in DOMAIN itemProfile} \ {0}
Slots == LET Given(e) == Lengths(e) # {} IN SelectSeq(EmbeddingNames, Given)
Votes(e, d) == Cardinality({i \in DOMAIN itemProfile : itemProfile[i].emb[e] = d})
Elected(e) == {d \in Lengths(e) : \A x \in Lengths(e) : Votes(e, x) <= Votes(e, d)}

(* Dataset.Get: pairs of an index and a value. *)
Get(k) ==
  LET u == samples[k][1]
      i == samples[k][2]
      Shift(by, s) == [j \in DOMAIN s |-> <<by + s[j][1], s[j][2]>>]
      position == Len(UserNames) + Len(ItemNames)
  IN <<<<ToNumber(UserNames, u), Whole(1)>>,
       <<Len(UserNames) + ToNumber(ItemNames, i), Whole(1)>>>>
     \o Shift(position, Encoded(userProfile[u], UserLabelNames))
     \o Shift(position + Len(UserLabelNames), Encoded(itemProfile[i].labels, ItemLabelNames))

(* An embedding is told apart by its item. *)
TrainingEmbedding(i) ==
  [e \in DOMAIN embeddingDim |->
     IF itemProfile[i].emb[Slots[e]] = embeddingDim[e] THEN i ELSE "zeros"]

-----------------------------------------------------------------------------
(* The model. *)

GetBool(s) == IF s = {} THEN TRUE ELSE TRUE \in s

ValuesOf(idx) ==
  LET all == FlattenSeq([k \in DOMAIN samples |-> Get(k)])
      Of(p) == p[1] = idx
      kept == SelectSeq(all, Of)
  IN [k \in DOMAIN kept |-> kept[k][2]]
Numerical(idx) == \E k \in DOMAIN ValuesOf(idx) : ~Equal(ValuesOf(idx)[k], Whole(1))
fitScalers == [idx \in {x \in 0 .. IndexLen(Index) - 1 : Numerical(x)} |-> AutoFit(ValuesOf(idx))]

(* Init of AFM. *)
InitModel ==
  [autoScale |-> GetBool(scale), params |-> scale, index |-> Index,
   numFeatures |-> IndexLen(Index),
   numDimension |-> Max({Len(Get(k)) : k \in DOMAIN samples}),
   embeddingDim |-> embeddingDim, embeddingIndex |-> Slots,
   scalers |-> IF GetBool(scale) THEN fitScalers ELSE <<>>]

applyScalers(m, row) ==
  [j \in DOMAIN row |->
     IF row[j][1] \in DOMAIN m.scalers
     THEN <<row[j][1], AutoTransform(m.scalers[row[j][1]], row[j][2])>> ELSE row[j]]

(* convertToTensors, and the flat arrays on XLA: rows padded with zeros. *)
Tensor(rows, width) ==
  [p \in 1 .. Len(rows) * width |->
     LET row == rows[((p - 1) \div width) + 1]
         j == ((p - 1) % width) + 1
     IN IF j <= Len(row) THEN row[j] ELSE <<0, Whole(0)>>]
Width(m, rows) == Max({m.numDimension} \cup {Len(rows[k]) : k \in DOMAIN rows})

(* What the forward pass sees of row k: padding has weight zero. *)
Seen(tensor, width, k) ==
  LET Counts(p) == p[2][1] # 0
  IN SelectSeq(SubSeq(tensor, (k - 1) * width + 1, k * width), Counts)

(* A batch of Fit, and ctrDataset.batch on XLA. *)
TrainingRows(m) == [k \in DOMAIN samples |-> applyScalers(m, Get(k))]
TrainingView(m, k) ==
  LET first == ((k - 1) \div BatchSize) * BatchSize + 1
      rows == SubSeq(TrainingRows(m), first, Min({first + BatchSize - 1, Len(samples)}))
      width == IF xla THEN m.numDimension ELSE Width(m, rows)
  IN Seen(Tensor(rows, width), width, k - first + 1)

(* BatchPredict: names to indices, unknown ones left out. *)
Encode(m, u, i) ==
  LET Present(p) == p[1] # NotId
      ul == userProfile[u]
      il == itemProfile[i].labels
  IN SelectSeq(<<<<EncodeUser(m.index, u), Whole(1)>>, <<EncodeItem(m.index, i), Whole(1)>>>>
               \o [k \in DOMAIN ul |-> <<EncodeUserLabel(m.index, ul[k].name), ul[k].value>>]
               \o [k \in DOMAIN il |-> <<EncodeItemLabel(m.index, il[k].name), il[k].value>>],
               Present)
PredictedEmbedding(m, i) ==
  [e \in DOMAIN m.embeddingDim |->
     IF itemProfile[i].emb[m.embeddingIndex[e]] = m.embeddingDim[e] THEN i ELSE "zeros"]

(* BatchInternalPredict on all pairs of samples. *)
PredictionView(m, k) ==
  LET first == ((k - 1) \div BatchSize) * BatchSize + 1
      row(j) == IF m.autoScale THEN applyScalers(m, Encode(m, samples[j][1], samples[j][2]))
                ELSE Encode(m, samples[j][1], samples[j][2])
      rows == [j \in 1 .. Min({BatchSize, Len(samples) - first + 1}) |-> row(first + j - 1)]
  IN Seen(Tensor(rows, Width(m, rows)), Width(m, rows), k - first + 1)

-----------------------------------------------------------------------------
(* MarshalModel and UnmarshalModel; the scalers are written in any order. *)

Header(m) == IF m.autoScale THEN "AFM2" ELSE "AFM"
Marshal(m) ==
  LET ids == SetToSeq(DOMAIN m.scalers)
      pairs == [k \in DOMAIN ids |-> <<ids[k], AutoMarshal(m.scalers[ids[k]])>>]
  IN [header |-> Header(m), params |-> m.params, index |-> m.index,
      stats |-> <<m.numFeatures, m.numDimension, m.embeddingDim>>,
      embeddingIndex |-> IF Len(m.embeddingDim) > 0 THEN m.embeddingIndex ELSE <<>>,
      scalers |-> IF m.autoScale THEN pairs ELSE <<>>]

(* SetParams overrides what the header says of scaling. *)
Unmarshal(b) ==
  [autoScale |-> GetBool(b.params), params |-> b.params, index |-> b.index,
   numFeatures |-> b.stats[1], numDimension |-> b.stats[2], embeddingDim |-> b.stats[3],
   embeddingIndex |-> b.embeddingIndex,
   scalers |-> IF ~GetBool(b.params) THEN <<>>
               ELSE [idx \in {b.scalers[k][1] : k \in DOMAIN b.scalers} |->
                       AutoUnmarshal((CHOOSE p \in ToSet(b.scalers) : p[1] = idx)[2])]]

-----------------------------------------------------------------------------

FeatureInit ==
  /\ xla \in BOOLEAN
  /\ scale \in {{}, {TRUE}, {FALSE}}
  /\ userProfile \in [ToSet(UserNames) -> UserProfiles]
  /\ itemProfile \in [ToSet(ItemNames) -> ItemProfiles]
  /\ samples \in SampleSets
  /\ embeddingDim \in {d \in [DOMAIN Slots -> UNION {Lengths(e) : e \in ToSet(Slots)}] :
                        \A e \in DOMAIN Slots : d[e] \in Elected(Slots[e])}
  /\ trained = NoModel /\ stream = NoModel /\ loaded = NoModel

Fit ==
  /\ trained = NoModel
  /\ trained' = InitModel
  /\ UNCHANGED <<xla, scale, userProfile, itemProfile, samples, embeddingDim, stream, loaded>>

MarshalModel ==
  /\ trained # NoModel /\ stream = NoModel
  /\ stream' = Marshal(trained)
  /\ UNCHANGED <<xla, scale, userProfile, itemProfile, samples, embeddingDim, trained, loaded>>

UnmarshalModel ==
  /\ stream # NoModel /\ loaded = NoModel
  /\ loaded' = Unmarshal(stream)
  /\ UNCHANGED <<xla, scale, userProfile, itemProfile, samples, embeddingDim, trained, stream>>

FeatureNext == Fit \/ MarshalModel \/ UnmarshalModel
FeatureSpec == FeatureInit /\ [][FeatureNext]_featureVars

-----------------------------------------------------------------------------
(* The worker's model sees a pair of the training set exactly as the master *)
(* trained on it: the same features in the same positions with the same     *)
(* scaled values, and the same embeddings.                                  *)
SameRow(a, b) ==
  /\ Len(a) = Len(b)
  /\ \A k \in DOMAIN a : a[k][1] = b[k][1] /\ Equal(a[k][2], b[k][2])
PredictsAsTrained ==
  loaded # NoModel =>
    \A k \in DOMAIN samples :
      /\ SameRow(TrainingView(trained, k), PredictionView(loaded, k))
      /\ TrainingEmbedding(samples[k][2]) = PredictedEmbedding(loaded, samples[k][2])

(* Scaling maps the values of the training set into the unit interval, and  *)
(* keeps their order within a feature.                                      *)
ScaledToUnit ==
  trained # NoModel /\ GetBool(scale) =>
    \A j, k \in DOMAIN samples :
      LET a == Get(j)
          b == Get(k)
          x == applyScalers(trained, a)
          y == applyScalers(trained, b)
      IN \A p \in DOMAIN a :
           /\ ~Less(x[p][2], Whole(0)) /\ ~Less(Whole(1), x[p][2])
           /\ \A q \in DOMAIN b :
                a[p][1] = b[q][1] /\ Less(a[p][2], b[q][2]) => ~Less(y[q][2], x[p][2])
=============================================================================
