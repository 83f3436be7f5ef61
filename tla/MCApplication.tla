----------------------------- MODULE MCApplication -----------------------------
(* The application with short documents of letters and line endings. *)
EXTENDS Application

CONSTANTS a, lf, cr

TwoSpaces == <<a, a>>

MCTexts == {<<a>>, <<lf>>, TwoSpaces}

(* A line that ends with CR LF, and short lines between longer ones. *)
MCFiles == {<<cr, lf, a>>, <<a, lf, lf, a>>}

Sentinel == -1

=============================================================================
