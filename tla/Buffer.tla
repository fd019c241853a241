------------------------------- MODULE Buffer -------------------------------
(***************************************************************************)
(* muduo::net::Buffer as the three cursors the spec (section 3) gives it:  *)
(* kCheapPrepend <= readerIndex_ <= writerIndex_ <= buffer_.size().  Byte  *)
(* contents are left out; a buffer is a record of the three numbers.       *)
(*                                                                         *)
(* Buffer::readFd (src/muduo/net/Buffer.cc) is translated from the code;  *)
(* TcpConnection's handleRead uses it on inputBuffer_.                   *)
(* Buffer.h, which holds append() and makeSpace(), is not among the        *)
(* sources, so append is modelled from the spec (section 4.4): append      *)
(* grows the buffer, or compacts the readable bytes to the front when the  *)
(* prependable space is enough.                                            *)
(***************************************************************************)
EXTENDS Naturals

CONSTANTS
    CheapPrepend,  \* Buffer::kCheapPrepend (8), scaled
    ExtraBufSize   \* sizeof(extrabuf) in readFd (65536), scaled

Readable(b) == b.writer - b.reader
Writable(b) == b.size - b.writer
Prependable(b) == b.reader

\* makeSpace(len) then the copy of append(): room for len more bytes.
BufAppend(b, len) ==
    IF Writable(b) + Prependable(b) < len + CheapPrepend
    THEN [b EXCEPT !.size = b.writer + len, !.writer = b.writer + len]
    ELSE [reader |-> CheapPrepend,
          writer |-> CheapPrepend + Readable(b) + len,
          size   |-> b.size]

(***************************************************************************)
(* Buffer::readFd(): one readv() into the writable tail and a stack       *)
(* extrabuf.  The kernel delivers n = min(avail, writable + extrabuf)      *)
(* bytes of the avail it holds, or fails (n < 0, the buffer untouched).    *)
(* Bytes beyond the tail went to extrabuf and are appended after the       *)
(* writer index is moved to the end.  The result is the new buffer and n. *)
(***************************************************************************)
ReadvCount(b, avail) ==
    IF avail < Writable(b) + ExtraBufSize THEN avail
                                          ELSE Writable(b) + ExtraBufSize

ReadFdNoAppend(b, avail) ==
    \* faulty variant: the bytes that landed in extrabuf are not appended
    LET n == ReadvCount(b, avail)
    IN  IF n <= Writable(b)
        THEN [buf |-> [b EXCEPT !.writer = b.writer + n], n |-> n]
        ELSE [buf |-> [b EXCEPT !.writer = b.size], n |-> n]

ReadFd(b, avail) ==
    LET n == ReadvCount(b, avail)
    IN  IF n <= Writable(b)
        THEN [buf |-> [b EXCEPT !.writer = b.writer + n], n |-> n]
        ELSE [buf |-> BufAppend([b EXCEPT !.writer = b.size], n - Writable(b)),
              n |-> n]

\* The cursor invariant of the spec (section 3).
CursorsOrdered(b) ==
    CheapPrepend <= b.reader /\ b.reader <= b.writer /\ b.writer <= b.size

=============================================================================
