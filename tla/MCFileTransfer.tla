--------------------------- MODULE MCFileTransfer ---------------------------
(* Small instances of FileTransfer for TLC. *)
EXTENDS StreamOrder

File(name, size, bytes, readable) ==
    [name |-> name, size |-> size, bytes |-> bytes, readable |-> readable]

\* With SizeBits = 3 a size of 4 or more is negative once converted to signed.
GoodFiles == {File("a", 2, 2, TRUE), File("b", 1, 1, TRUE), File("b", 0, 0, TRUE)}
BadFiles ==
    { File("a", 0, 2, TRUE),    \* longer than declared
      File("b", 3, 1, TRUE),    \* shorter than declared
      File("a", 7, 1, TRUE),    \* declared beyond the signed range
      File("b", 1, 0, FALSE) }  \* cannot be opened

UpTo(n, S) == UNION {[1 .. k -> S] : k \in 0 .. n}

GoodRequests == UpTo(2, GoodFiles)
MixedRequests == UpTo(1, GoodFiles \cup BadFiles)
                   \cup {<<f, File("b", 1, 1, TRUE)>> : f \in GoodFiles \cup BadFiles}
                   \cup {<<File("b", 0, 0, TRUE), File("b", 0, 0, TRUE)>>}
LongerFile == {<<File("a", 1, 2, TRUE)>>}
=============================================================================
