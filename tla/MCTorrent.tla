------------------------------ MODULE MCTorrent -----------------------------
(* Torrent with a few torrents for TLC. *)
EXTENDS Torrent

CONSTANTS g1, g2

\* One generator thread for a generation and a download, of one name or of two; or
\* the generation alone, asked for again while its first thread runs, with the whole
\* path to make.
OneThreadOrTwo ==
    {[ids |-> {1, 2}, threads |-> {g1}, names |-> <<"a", n>>, shared |-> 1] : n \in Names}
    \cup {[ids |-> {1}, threads |-> {g1, g2}, names |-> <<"a", "b">>, shared |-> 0]}
=============================================================================
