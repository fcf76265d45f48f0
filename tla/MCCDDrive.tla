------------------------------ MODULE MCCDDrive ------------------------------
(* Instances of CDDrive for TLC. *)
EXTENDS CDDrive

\* A data track of three sectors and an audio track of two, with a pregap.
MixedDisc == <<<<1, 1>>, <<1, 1>>, <<1, 1>>, <<2, 0>>, <<2, 1>>, <<2, 1>>>>

At(f) == FadFlag + f

\* A range, and a sector twice; the resumption of a pause; a longer stay in the
\* range; a new start for the old end, for ever; the whole disc by track; track 1,
\* twice, and from an index that it does not have.
MixedPlays == {<<At(1), At(2), 0>>, <<At(2), At(1), 1>>, <<Keep, Keep, KeepRepeat>>, <<At(1), At(3), 128>>,
               <<At(2), Keep, Infinite>>, <<0, 0, 0>>, <<257, 355, 1>>, <<258, 355, 1>>}

MixedFiles == {<<1, 2, 0>>, <<1, 3, 1>>, <<5, 1, 0>>}

MixedTargets == {At(2), At(6), 513, 0 + 127}

\* Everything on the disc by track, and one file.
TrackPlays == {<<0, 0, 0>>}

OneFile == {<<1, 2, 0>>}
=============================================================================
