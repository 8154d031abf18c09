---------------------------- MODULE MCBackendParts ----------------------------
(* Parts of the backends and of the service that share no state, one of them in each behaviour. *)
EXTENDS ConnectionCache, PacmanRepositories, CheckInterval, TLC

VARIABLE part

-------------------------------------------------------------------------------
(* Repositories: pacman.conf with two include files; every kind of line in every section *)

TextLine(key, value) == [key |-> key, value |-> value]
Begin(name) == TextLine("section", name)
Server(url) == TextLine("Server", url)
SigLevel(tokens) == TextLine("SigLevel", tokens)
Include(names) == TextLine("Include", names)
Token(scopes, action) == [scopes |-> scopes, action |-> action]
Db == {"Database"}

IncludedFiles ==
  {None,
   <<Server("m1"), Server("m2")>>,
   <<SigLevel(<<Token(Scopes, "Never")>>)>>,
   <<Begin("extra"), Server("m1")>>,
   <<Include({0})>>,
   <<Include({2}), Server("m1")>>,
   <<Begin("options"), SigLevel(<<Token(Db, "Optional"), Token(Scopes, "TrustAll")>>)>>,
   <<Begin("core")>>}

OptionLines ==
  {SigLevel(<<Token(Db, "Never")>>), TextLine("GPGDir", "keys"), TextLine("Architecture", <<"auto", "other">>), Include({1})}

RepositoryLines ==
  {Begin("options"), Begin("extra"), Begin(".."), Include({1}), Include({1, 2}), Include({}), Server("a"),
   SigLevel(<<Token(Db, "Required"), Token({"Package"}, "TrustedOnly")>>),
   SigLevel(<<Token(Scopes, "Sometimes")>>), SigLevel(<<>>), TextLine("GPGDir", "x")}

LastLines == {Server("b"), SigLevel(<<Token({"Package"}, "Never")>>)}

ManyConfigurations ==
  {(0 :> <<Server("z"), SigLevel(<<>>), Begin("options"), a, Begin("core"), b, c, d>>) @@ (1 :> e) @@ (2 :> <<Server("m3")>>) :
     a \in OptionLines, b \in RepositoryLines, c \in RepositoryLines, d \in LastLines, e \in IncludedFiles}

-------------------------------------------------------------------------------
(* Intervals: 42 minutes fit the timer, 39 with their jitter *)

SomePolicies ==
  {[interval |-> i, minInterval |-> n, maxJitter |-> j, backoff |-> <<2, 60>>] :
     i \in {-1, 6, 60}, n \in {3, 50}, j \in {-2, 3, 20}}
SomeValues == {0, 1, 38, 39, 40, 1000}
SomeOffsets == {-2000000, 60000, 2000000}

-------------------------------------------------------------------------------
AnyFiles == [d \in Databases |-> [there |-> TRUE, content |-> 0, mtime |-> 0]]
AnyConfiguration == CHOOSE any \in Configurations : TRUE
AnyPolicy == CHOOSE any \in Policies : TRUE

\* A part that does not move has one initial state.
BackendInit ==
  /\ part \in {"cache", "repositories", "interval"}
  /\ part # "cache" => files = AnyFiles
  /\ part # "repositories" => texts = AnyConfiguration
  /\ part # "interval" => policy = AnyPolicy /\ cli = Unset /\ document = Unset
  /\ CacheInit /\ RepositoriesInit /\ IntervalInit

CacheMoves == part = "cache" /\ CacheNext /\ UNCHANGED <<repositoriesVars, intervalVars, part>>
RepositoriesMoves == part = "repositories" /\ RepositoriesNext /\ UNCHANGED <<cacheVars, intervalVars, part>>
IntervalMoves == part = "interval" /\ IntervalNext /\ UNCHANGED <<cacheVars, repositoriesVars, part>>

BackendSpec ==
  BackendInit /\ [][CacheMoves \/ RepositoriesMoves \/ IntervalMoves]_<<cacheVars, repositoriesVars, intervalVars, part>>

Symmetry == Permutations(Databases) \cup Permutations(Loaders)
===============================================================================
