------------------------------- MODULE MCFraming -------------------------------
(* A small instance of Framing: bytes are bits, so that a header takes the   *)
(* values -8..7.                                                             *)
EXTENDS Framing

\* Bodies of every length up to one more than the limit; the bytes of <<0, 1>>
\* and <<1, 1>> may be taken for a part of a header.
SmallBodies == {<< >>, <<1>>, <<0, 1>>, <<1, 1>>, <<0, 0, 1>>}

\* A negative length, and one that is too large
SmallBadLens == {-1, 7}

SmallParseable == {<< >>, <<1>>, <<1, 1>>}
=============================================================================
