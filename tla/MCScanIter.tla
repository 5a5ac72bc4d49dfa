------------------------------ MODULE MCScanIter ------------------------------
(* Instances of ScanIter for TLC. *)
EXTENDS ScanIter

File(rs, fault) == [rows |-> rs, fault |-> fault]

\* Up to three files, with kept and dropped rows and files without rows, the
\* last one failing at any step; no limit, a limit of 0, and limits that are
\* reached inside a file and at the end of one.
MixedScans ==
    [files : {<< >>}
             \cup {<<File(a, "none"), File(b, "none"), File(c, fault)>> :
                     a \in {<<TRUE, TRUE>>, <<FALSE>>}, b \in {<<>>, <<TRUE>>},
                     c \in {<<FALSE, TRUE>>},
                     fault \in {"none", "open", "decoder", "row"}},
     limit : {NoLimit, 0, 1, 2}, shared : {FALSE}]

\* Two files read, with and without a limit, while another goroutine closes
\* the scan.
SharedScans ==
    [files : {<<File(a, "none"), File(<<TRUE>>, fault)>> :
                a \in {<<>>, <<TRUE, FALSE>>}, fault \in {"none", "decoder", "row"}},
     limit : {NoLimit, 1}, shared : {TRUE}]

AllScans == MixedScans \cup SharedScans
===============================================================================
