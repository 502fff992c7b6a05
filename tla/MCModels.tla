------------------------------ MODULE MCModels ------------------------------
(***************************************************************************)
(* Model checking of the data set, the models and what is served from      *)
(* them, of the configuration and of the cluster.  A behaviour is one of a *)
(* single component, chosen in the initial state.  Membership, RestWrites, *)
(* DatasetLoad and Recommend stay in an initial state while it is the turn *)
(* of another; the others share the slots s1, s2, ... for their variables. *)
(***************************************************************************)
EXTENDS Membership, RestWrites, DatasetLoad, Recommend, Integers, Sequences

VARIABLES part,  \* the component this behaviour is of
          s1, s2, s3, s4, s5, s6, s7, s8, s9, s10, s11, s12, s13, s14, s15

\* Shapes with one, two and three dimensions, rows and columns of one included.
TensorShapes == {<<2>>, <<3>>, <<2, 3>>, <<3, 2>>, <<1, 3>>, <<2, 2>>, <<2, 3, 2>>, <<2, 2, 3>>}

\* A label and its value, and an item's embeddings "e" and "f" by dimension.
Label(n, v) == [name |-> n, value |-> <<v, 1>>]
Embeddings(e, f) == [n \in {"e", "f"} |-> IF n = "e" THEN e ELSE f]

\* Labels that are unknown, shared by users and items, negative or missing.
UserLabels == {<<>>, <<Label("a", 1)>>, <<Label("a", 3), Label("z", 1)>>, <<Label("a", -2)>>}
ItemLabels == {[labels |-> <<>>, emb |-> Embeddings(2, 0)],
               [labels |-> <<Label("a", 1), Label("b", 2)>>, emb |-> Embeddings(3, 1)],
               [labels |-> <<Label("b", -1)>>, emb |-> Embeddings(0, 0)]}

\* An increasing function in place of the logarithm.
Logarithm == [v \in 0 .. 3 |-> CASE v = 0 -> 0 [] v = 1 -> 7 [] v = 2 -> 11 [] v = 3 -> 14]

\* Similarities of three items, and two neighbours of the user.
Similarity == [i \in 1 .. 3 |-> [j \in 1 .. 3 |-> IF i = j THEN 9 ELSE i + 2 * j]]
Neighbours == {[id |-> 1, likes |-> {1, 2}, score |-> 1], [id |-> 2, likes |-> {2, 3}, score |-> 2]}

\* Without a ranker, with one, and with replacement.
Settings ==
    {[ranker |-> "none", replacement |-> FALSE,
      ranked |-> <<"itemToItem", "nonPersonalized">>, fallback |-> <<"external", "latest">>],
     [ranker |-> "fm", replacement |-> FALSE,
      ranked |-> <<>>, fallback |-> <<"collaborative", "userToUser", "latest">>],
     [ranker |-> "fm", replacement |-> TRUE, ranked |-> <<>>, fallback |-> <<"nonPersonalized">>]}

\* The cached lists before and after a change; the script repeats an item.
CachedLists ==
    {[offline |-> <<2>>, nonPersonalized |-> <<3, 1>>, collaborative |-> <<2, 3>>, external |-> <<2, 2>>],
     [offline |-> <<1, 3>>, nonPersonalized |-> <<1>>, collaborative |-> <<3>>, external |-> <<1>>]}

\* All items shown, or item 2 hidden, or item 2 gone.
ItemStates == {[i \in 1 .. 3 |-> IF i = 2 THEN s ELSE "shown"] : s \in {"shown", "hidden", "gone"}}

\* No feedback, or item 1 rated one way or the other.
FirstFeedback == {{}} \cup {{[item |-> 1, kind |-> k, time |-> 0]} : k \in {"pos", "neg"}}

\* Settings of a recommender of each kind, and the configurations posted: one
\* with another ranker, with other feedback types, with a fallback that is not
\* defined, without collaborative filtering or ranker; and some of one digest: a
\* positive type made negative, two types joined to one, and a recommender in the
\* place of one of another kind.
Scored(n) == [name |-> <<n>>, score |-> <<"s">>, filter |-> <<>>]
Similar(n, t) == [name |-> <<n>>, type |-> t, column |-> <<>>]
Base ==
    [nonPersonalized |-> <<Scored("a")>>, itemToItem |-> <<Similar("a", "users"), Similar("b", "tags")>>,
     userToUser |-> <<Similar("a", "items"), Similar("b", "tags")>>,
     external |-> <<[name |-> <<"a">>, script |-> <<"x">>]>>,
     collaborative |-> "mf", rankerType |-> "fm", url |-> TRUE, model |-> TRUE,
     ranker |-> <<<<"item-to-item", <<"a">>>>, <<"collaborative">>>>,
     fallback |-> <<<<"latest">>, <<"non-personalized", <<"a">>>>>>,
     positive |-> <<<<"p">>, <<"n">>>>, negative |-> <<>>]
Configurations ==
    {Base, [Base EXCEPT !.positive = <<<<"p">>>>, !.negative = <<<<"n">>>>],
     [Base EXCEPT !.positive = <<<<"p", "n">>>>],
     [Base EXCEPT !.positive = <<<<"q">>>>, !.ranker = <<<<"item-to-item", <<"a">>>>>>],
     [Base EXCEPT !.ranker = <<<<"item-to-item", <<"a">>>>>>],
     [Base EXCEPT !.ranker = <<<<"item-to-item", <<"b">>>>>>],
     [Base EXCEPT !.ranker = <<<<"user-to-user", <<"b">>>>>>],
     [Base EXCEPT !.fallback = <<<<"external", <<"a">>>>>>, !.external = <<>>],
     [Base EXCEPT !.collaborative = "none"],
     [Base EXCEPT !.rankerType = "none", !.ranker = <<<<"user-to-user", <<"a">>>>>>]}

\* Tokens as sequences of characters: one too short to be shown in part, and
\* two that differ in the middle.
Secrets == {<<"s">>, <<"h", "m", "t">>, <<"h", "o", "t">>}

\* The ring of the hash: a user between any two workers that follow one another.
Positions == [x \in {"a", "b", "s", "u", "v", "c"} |->
                CASE x = "a" -> 0 [] x = "u" -> 1 [] x = "b" -> 2 [] x \in {"v", "s"} -> 3 [] OTHER -> 4]

\* Two readers, an unknown user, feedback of every type.
Feedbacks == {<<1, 1, "pos">>, <<2, 1, "pos">>, <<1, 2, "pos">>, <<3, 2, "pos">>, <<1, 1, "neg">>,
              <<1, 3, "read">>}

\* Three owners with up to two labels each.
Labels == INSTANCE LabelIndex WITH NOwners <- 3, LabelNames <- {1, 2}, MaxLabels <- 2,
        features <- s1, owner <- s2, pos <- s3, count <- s4, first <- s5, index <- s6, out <- s7

\* Every operator on every pair of shapes it accepts.
Tensor == INSTANCE TensorOps WITH Shapes <- TensorShapes, Fillings <- {3, 5}, NJobs <- 3,
        Align <- 2, op <- s1, inputs <- s2, outcome <- s3, gradient <- s4, grads <- s5,
        opPhase <- s6, moved <- s7, parts <- s8

\* Every graph of three operators over one leaf, two passes.
Graph == INSTANCE Autograd WITH Leaves <- <<2>>, MaxOps <- 3, MaxPasses <- 2, nodes <- s1,
        root <- s2, buffers <- s3, grad <- s4, queue <- s5, seenOps <- s6, before <- s7,
        passes <- s8

\* Two users and items, two workers, arithmetic modulo 7.
Als == INSTANCE ALS WITH P <- 7, Members <- [user |-> {1, 2}, item |-> {1, 2}], NFactors <- 2,
        Weight <- 2, Reg <- 3, Initial <- {<<1, 2>>, <<3, 1>>}, NJobs <- 2, pairs <- s1,
        side <- s2, factor <- s3, gram <- s4, todo <- s5, owner <- s6, coord <- s7,
        predictions <- s8, residuals <- s9, solved <- s10

\* Three users and two items with every combination of labels, a short last batch.
Ctr == INSTANCE CtrFeatures WITH UserNames <- <<"u", "v", "w">>, ItemNames <- <<"i", "j">>,
        UserLabelNames <- <<"a">>, ItemLabelNames <- <<"b", "a">>, UserProfiles <- UserLabels,
        ItemProfiles <- ItemLabels, EmbeddingNames <- <<"e", "f">>, Log1p <- Logarithm,
        BatchSize <- 2,
        SampleSets <- {<<<<"u", "i">>, <<"v", "j">>, <<"w", "i">>>>, <<<<"v", "i">>, <<"v", "j">>>>},
        xla <- s1, scale <- s2, userProfile <- s3, itemProfile <- s4, samples <- s5,
        embeddingDim <- s6, trained <- s7, stream <- s8, loaded <- s9

\* Two users with histories of up to two, equal times included.
Splitting == INSTANCE Splits WITH NUsers <- 2, Items <- {1, 2, 3}, Times <- {1, 2}, MaxHistory <- 2,
        Ratios <- {2, 5, 10}, Shots <- {1, 2}, MaxCandidates <- 2, history <- s1, trainSet <- s2,
        testSet <- s3, splitBy <- s4, negatives <- s5

\* Two users on two workers, equal predictions included.
Metric == INSTANCE Metrics WITH NUsers <- 2, Items <- {1, 2}, Levels <- {1, 2, 3}, TopK <- 1,
        NJobs <- 2, Discounts <- <<4, 3, 2>>, MaxPredictions <- 2, task <- s1, targets <- s2,
        candidates <- s3, prediction <- s4, unranked <- s5, sums <- s6, counts <- s7,
        rankings <- s8, means <- s9, pos <- s10, neg <- s11, pPos <- s12, nPos <- s13,
        total <- s14, auc <- s15

\* Every subset of users and items with feedback, a short last page.
Codec == INSTANCE FactorCodec WITH UserNames <- {"u", "v"}, ItemNames <- {"i", "j", "k"},
        PageSize <- 2, dict <- s1, fedback <- s2, bytes <- s3, unread <- s4, loadedModel <- s5,
        blob <- s6, workerUsers <- s7, itemVectors <- s8, page <- s9

\* Six entries in pages of two, of five endpoints.
Paging == INSTANCE RestPaging WITH NEntries <- 6, PageSize <- 2, CacheSize <- 3,
        ContextSize <- 1, Self <- 1, walk <- s1, offset <- s2, got <- s3, ended <- s4

\* One task after the other, of two epochs and two index steps.
Tasks == INSTANCE Progress WITH NEpochs <- 2, NIndexed <- 2, span <- s1, step <- s2,
        ending <- s3, raced <- s4, failing <- s5, listing <- s6, reply <- s7

\* Two administrators, three steps between reloads.
Conf == INSTANCE Config WITH Admins <- {1, 2}, Drafts <- Configurations, Apis <- {"reranker"},
        Tokens <- Secrets, MaxSteps <- 3, redacted <- s1, filed <- s2, conf <- s3,
        override <- s4, form <- s5, posting <- s6, typed <- s7, overtaken <- s8, steps <- s9

\* A component uses the first slots; the others stay as they are.
Unused11 == s12 = 0 /\ s13 = 0 /\ s14 = 0 /\ s15 = 0
Kept11 == UNCHANGED <<s12, s13, s14, s15>>
Unused10 == s11 = 0 /\ Unused11
Kept10 == UNCHANGED <<s11, s12, s13, s14, s15>>
Unused9 == s10 = 0 /\ Unused10
Kept9 == UNCHANGED <<s10, s11, s12, s13, s14, s15>>
Unused8 == s9 = 0 /\ Unused9
Kept8 == UNCHANGED <<s9, s10, s11, s12, s13, s14, s15>>
Unused7 == s8 = 0 /\ Unused8
Kept7 == UNCHANGED <<s8, s9, s10, s11, s12, s13, s14, s15>>
Unused5 == s6 = 0 /\ s7 = 0 /\ Unused7
Kept5 == UNCHANGED <<s6, s7, s8, s9, s10, s11, s12, s13, s14, s15>>
Unused4 == s5 = 0 /\ Unused5
Kept4 == UNCHANGED <<s5, s6, s7, s8, s9, s10, s11, s12, s13, s14, s15>>
Unused0 == s1 = 0 /\ s2 = 0 /\ s3 = 0 /\ s4 = 0 /\ Unused4
slots == <<s1, s2, s3, s4, s5, s6, s7, s8, s9, s10, s11, s12, s13, s14, s15>>

OtherInit ==
    \/ part = "labels" /\ Labels!LabelInit /\ Unused7
    \/ part = "tensor" /\ Tensor!OpInit /\ Unused8
    \/ part = "graph" /\ Graph!GraphInit /\ Unused8
    \/ part = "als" /\ Als!ALSInit /\ Unused10
    \/ part = "ctr" /\ Ctr!FeatureInit /\ Unused9
    \/ part = "split" /\ Splitting!SplitsInit /\ Unused5
    \/ part = "metric" /\ Metric!MetricsInit
    \/ part = "codec" /\ Codec!CodecInit /\ Unused9
    \/ part = "paging" /\ Paging!PageInit /\ Unused4
    \/ part = "progress" /\ Tasks!ProgressInit /\ Unused7
    \/ part = "config" /\ Conf!ConfigInit /\ Unused9

OtherNext ==
    \/ part = "labels" /\ Labels!LabelNext /\ Kept7
    \/ part = "tensor" /\ Tensor!OpNext /\ Kept8
    \/ part = "graph" /\ Graph!GraphNext /\ Kept8
    \/ part = "als" /\ Als!ALSNext /\ Kept10
    \/ part = "ctr" /\ Ctr!FeatureNext /\ Kept9
    \/ part = "split" /\ Splitting!SplitsNext /\ Kept5
    \/ part = "metric" /\ Metric!MetricsNext
    \/ part = "codec" /\ Codec!CodecNext /\ Kept9
    \/ part = "paging" /\ Paging!NextPage /\ Kept4
    \/ part = "progress" /\ Tasks!ProgressNext /\ Kept7
    \/ part = "config" /\ Conf!ConfigNext /\ Kept9

\* An initial state in which getRecommend waits while it is another's turn.
RecRests ==
    /\ RecInit /\ ~known
    /\ settings = CHOOSE c \in Settings : TRUE
    /\ lists = CHOOSE l \in CachedLists : TRUE
    /\ state = CHOOSE i \in ItemStates : TRUE

\* A server waits likewise.
WriteRests == auto.user /\ auto.item /\ exact

MCInit ==
    /\ MemberInit /\ WriteInit /\ LoadInit
    /\ \/ part = "quota" /\ store = {} /\ RecRests /\ Unused0
       \/ part = "load" /\ WriteRests /\ RecRests /\ Unused0
       \/ part = "recommend" /\ WriteRests /\ store = {} /\ RecInit /\ Unused0
       \/ /\ WriteRests /\ store = {} /\ RecRests
          /\ OtherInit \/ (part = "member" /\ Unused0)

MCNext ==
    /\ UNCHANGED part
    /\ \/ part = "member" /\ MemberNext /\ UNCHANGED <<writeVars, loadVars, recVars, slots>>
       \/ part = "quota" /\ WriteNext /\ UNCHANGED <<memberVars, loadVars, recVars, slots>>
       \/ part = "load" /\ LoadNext /\ UNCHANGED <<memberVars, writeVars, recVars, slots>>
       \/ part = "recommend" /\ RecNext /\ UNCHANGED <<memberVars, writeVars, loadVars, slots>>
       \/ OtherNext /\ UNCHANGED <<memberVars, writeVars, loadVars, recVars>>

mcVars == <<memberVars, writeVars, loadVars, recVars, part, slots>>

MCSpec == MCInit /\ [][MCNext]_mcVars

-----------------------------------------------------------------------------

\* What backward hands to an input is the derivative of forward, also through a
\* graph in which tensors are used twice; products and optimiser steps divided among
\* goroutines cover every row and element once; a coordinate ALS has just solved
\* minimises the loss in it.
TrainingIsExact ==
    /\ part = "tensor" => /\ Tensor!GradientsMatch
                       /\ Tensor!ProductsAgree
                       /\ Tensor!StepMovesAllOnce
    /\ part = "graph" => Graph!GradientIsDerivative
    /\ part = "als" => Als!SolvedIsStationary

\* A label is numbered exactly if it occurs twice, for its first owner too
\* (LoadDataFromDatabase).  A worker that received a model as bytes sees a pair as the master trained on it,
\* with values scaled into the unit interval (AFM), and finds for every trained user
\* and item their own factors in what is written and published (MatrixFactorization).
ModelArrivesWhole ==
    /\ part = "labels" => Labels!SharedLabelsIndexed
    /\ part = "ctr" => Ctr!PredictsAsTrained /\ Ctr!ScaledToUnit
    /\ part = "codec" => Codec!LoadedIsTrained /\ Codec!PublishedIsTrained

\* A split neither loses nor repeats feedback, and by time nothing leaks from the
\* future; metrics are means over the users with test feedback, of rankings that hold
\* the best candidates, and the AUC is the share of pairs in the right order.
EvaluationIsSound ==
    /\ part = "split" => Splitting!SplitsPartition /\ Splitting!TestIsLatest
    /\ part = "metric" => /\ Metric!MeansAreOfTestUsers
                       /\ Metric!RankingIsBest
                       /\ Metric!AUCIsShareOfPairs

\* A client that walks through a list of the server sees no entry twice and none that
\* is hidden or read, and when it stops at the first short page it has seen all.
WalkIsComplete == part = "paging" => Paging!PagesAreDisjoint /\ Paging!ShortPageIsLast

\* No listing shows more done than there is to do, unless a span ended during it, and a
\* task that failed in a child span is listed as failed (Span.Progress beside End and
\* Fail).
ProgressIsTrue == part = "progress" => Tasks!CountWithinTotal /\ Tasks!FailureIsReported

\* Every recommender the configuration in use names is defined, its tokens were
\* typed in or loaded and are never a mask that was shown, and a change of the words
\* recommenders compute from changes the digest workers compare (postConfig, Hash).
ConfigurationIsSound ==
    [][part = "config" => /\ Conf!NamesResolve'
                          /\ Conf!TokensAreReal'
                          /\ Conf!DigestTellsApart]_mcVars

\* "The shape of the second tensor must be a suffix sequence of the shape of the
\* first tensor" (common/nn/tensor.go): each element meets its own counterpart.
SecondIsAligned == part = "tensor" => Tensor!SecondIsAligned
=============================================================================
