----------------------------- MODULE TreeQueries -----------------------------
(***************************************************************************)
(* The line queries of a Tree, in every state its edits can lead to.       *)
(***************************************************************************)
EXTENDS PieceTree, LineQueries

DocumentText == TextOf(m_buffers, m_root)

Lines == 0..m_meta.lf_count

(* line_at gives the number of line feeds before the offset, for every    *)
(* offset up to the end, and at a seam between two pieces it does not      *)
(* matter at which of the two the descent stops.                          *)
LineAtCountsLineFeeds ==
    built => \A offset \in 0..length :
                line_at_offset(m_buffers, m_root, offset) = {RefLineAt(DocumentText, offset)}

(* The three line ranges are those of the text: without its line feed,    *)
(* without `\r\n', and with the line ending, for every line, wherever the  *)
(* pieces are cut (between the carriage return and the line feed, too).   *)
LineRangesMatchText ==
    built => \A line \in Lines :
        LET text    == DocumentText
            feed    == IF RefHasLineFeed(text, line) THEN 1 ELSE 0
            return  == IF RefHasCR(text, line) THEN 1 ELSE 0
            lf_count == m_meta.lf_count
        IN  /\ get_line_range(m_buffers, lf_count, m_root, line) = RefRange(text, line, feed)
            /\ get_line_range_crlf(m_buffers, lf_count, m_root, line)
                 = RefRange(text, line, feed + return)
            /\ get_line_range_with_newline(m_buffers, lf_count, m_root, line)
                 = RefRange(text, line, 0)

(* get_line_content is the line without its line feed; that of the CRLF   *)
(* variant is the line without its whole ending, and the variant reports  *)
(* an incomplete one exactly for a line that ends with a line feed alone. *)
ContentMatchesText ==
    built => \A line \in Lines :
        LET text == DocumentText
            feed == IF RefHasLineFeed(text, line) THEN 1 ELSE 0
            bare == RefHasLineFeed(text, line) /\ ~RefHasCR(text, line)
            dropped == IF bare THEN 1 ELSE IF RefHasCR(text, line) THEN 2 ELSE 0
        IN  /\ get_line_content(m_buffers, m_meta.lf_count, m_root, line) =
                  SubSeq(text, RefLineFirst(text, line) + 1, RefLineEnd(text, line) - feed)
            /\ get_line_content_crlf(m_buffers, m_meta.lf_count, m_root, line) =
                  [content    |-> SubSeq(text, RefLineFirst(text, line) + 1,
                                         RefLineEnd(text, line) - dropped),
                   incomplete |-> bare]

(* Every query by line agrees with the plain text: line_at, the three line *)
(* ranges, and the two contents of a line with what the CRLF variant says  *)
(* of its ending.                                                          *)
LineQueriesMatchText ==
    /\ LineAtCountsLineFeeds
    /\ LineRangesMatchText
    /\ ContentMatchesText

=============================================================================
