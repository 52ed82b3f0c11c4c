-------------------------------- MODULE MCEnt --------------------------------
(* Model values and bounds for EntBuilders. *)
EXTENDS EntBuilders, TLC

\* The mixin the fixture was generated from, and the one in the repository.
GeneratedFrom == SelectSeq(Mixins!OAuthClient, LAMBDA d : d.name # "audience")
Current       == Mixins!OAuthClient

\* The fixture's own mixin agrees with its generated code.
ASSUME FixtureAgrees == Validates(Client!Entity, GeneratedFrom)

\* runtime.go:222 says that what it takes "is the schema descriptor for is_public
\* field". In the mixin of the repository that place holds audience, whose default
\* is a list: the type assertion of init() panics.
ASSUME CurrentMixinPanics ==
    /\ Current[Client!Entity.runtime.index["is_public"]].name = "audience"
    /\ ~ Binds(Client!Entity, Current, "is_public")

Symmetry == Permutations(Builders)
=============================================================================
