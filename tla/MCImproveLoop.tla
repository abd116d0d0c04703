--------------------------- MODULE MCImproveLoop ---------------------------
(***************************************************************************)
(* ImproveLoop for TLC.                                                    *)
(***************************************************************************)
EXTENDS ImproveLoop

\* The last item of the pool is one the baseline does not solve.
AllButLast == 1..(N - 1)

\* DEFAULT_ALPHA = 0.05 and DEFAULT_NULL_WIN_RATE = 0.5.
DefaultAlpha == <<1, 20>>
DefaultNullWinRate == <<1, 2>>

=============================================================================
