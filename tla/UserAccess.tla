------------------------------ MODULE UserAccess ------------------------------
(***************************************************************************)
(* kernel::syscall::user_access: the window check, the page probe and the  *)
(* two copies between kernel buffers and user memory.  The unit of memory  *)
(* is Mmu's word; the code counts bytes, and its arithmetic is the same.   *)
(***************************************************************************)
EXTENDS Mmu, Usize

\* UserAccessWindow::empty.
EmptyWindow == [base |-> 0, len |-> 0]

validate(w, ptr, len) ==
  \/ len = 0
  \/ /\ checked_add(ptr, len) # None
     /\ checked_add(w.base, w.len) # None
     /\ ptr >= w.base /\ ptr + len <= w.base + w.len

page_of(va) == va - (va % PageSize)

\* The permissions one page must have.
page_ok(root, mem, page, require_write) ==
  \E t \in {translate(root, mem, page)} \ {None} :
    /\ "USER" \in t.flags
    /\ require_write => "WRITE" \in t.flags

\* probe_user_pages, for len > 0: the cursor saturates at the top of usize.
probe_user_pages(root, mem, ptr, len, require_write) ==
  LET end == checked_add(ptr, len)
      probe[page \in 0 .. UsizeMax] ==
        IF page >= end THEN TRUE
        ELSE /\ page_ok(root, mem, page, require_write)
             /\ probe[saturating_add(page, PageSize)]
  IN end # None /\ probe[page_of(ptr)]

-----------------------------------------------------------------------------
(* The second pass, one run per page.                                      *)

run_length(cur, end) ==
  LET page_remaining == PageSize - (cur % PageSize)
  IN IF page_remaining < end - cur THEN page_remaining ELSE end - cur

\* The places the runs of [ptr, end) visit, in order: frame and offset.
places(root, mem, ptr, end) ==
  LET from[cur \in 0 .. end] ==
        IF cur >= end THEN <<>>
        ELSE LET frame == translate(root, mem, page_of(cur)).frame
                 run == run_length(cur, end)
             IN [i \in 1 .. run |-> [frame |-> frame, at |-> (cur % PageSize) + i - 1]]
                  \o from[cur + run]
  IN from[ptr]

copy_from_user_ok(root, mem, w, ptr, len) ==
  /\ validate(w, ptr, len)
  /\ len > 0 => probe_user_pages(root, mem, ptr, len, FALSE)

\* The places copy_from_user reads into its buffer.
copy_from_user(root, mem, ptr, len) == places(root, mem, ptr, ptr + len)

\* Mutant: the write side probes for reading only.
CopyToProbesRead(root, mem, w, ptr, len) ==
  /\ validate(w, ptr, len)
  /\ len > 0 => probe_user_pages(root, mem, ptr, len, FALSE)

copy_to_user_ok(root, mem, w, ptr, len) ==
  /\ validate(w, ptr, len)
  /\ len > 0 => probe_user_pages(root, mem, ptr, len, TRUE)

\* Memory after copy_to_user of the words src.
copy_to_user(root, mem, ptr, src) ==
  LET to == places(root, mem, ptr, ptr + Len(src))
  IN [f \in DOMAIN mem |-> [i \in WordIndex |->
        IF \E n \in DOMAIN src : to[n] = [frame |-> f, at |-> i]
        THEN src[CHOOSE n \in DOMAIN src : to[n] = [frame |-> f, at |-> i]]
        ELSE mem[f][i]]]
=============================================================================
