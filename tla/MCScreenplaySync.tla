-------------------------- MODULE MCScreenplaySync --------------------------
(* ScreenplaySync on a few scenes with two sluglines.                      *)
EXTENDS ScreenplaySync, TLC

CONSTANTS s1, s2, s3, h1, h2, w1

\* Texts 1 and 2 share a slugline.
MCTexts == 1 .. 3
MCSlugOf == <<"kitchen", "kitchen", "new">>
MCImports == {<<1, 1>>, <<2>>}

MCUserDecisions == {<<"ambiguous", "accept">>, <<"removed", "remap">>}

Symmetry == Permutations(Handlers)
=============================================================================
