-------------------------------- MODULE RgaBo --------------------------------
(***************************************************************************)
(* The DRM buffers of class RockchipRga (core/RockchipRga.cpp, Linux): a   *)
(* bo_t holds a descriptor of /dev/dri/card0 of its own, the handle of a   *)
(* dumb buffer behind it and a mapping.  The application zeroes a bo_t,    *)
(* allocates into it only while it holds no buffer, and maps it once.      *)
(* Sizes, pitch and flags are left out.                                    *)
(***************************************************************************)
EXTENDS Integers

CONSTANTS Bos,      \* the application's bo_t structures
          CardFds   \* descriptors open("/dev/dri/card0") can return
\* The standard descriptors are taken: a zeroed bo_t names one of them.
ASSUME CardFdsAssumption == CardFds \subseteq Nat \ {0}

VARIABLES bo,       \* bo[b]: fd, handle, and whether ptr is set
          used,     \* bo_t structures that were passed to an allocation
          open,     \* open descriptors: the process's own 0, and cards
          dumb,     \* <<card, b>>: dumb buffers the kernel has for b
          mappings  \* bo_t structures whose memory is mapped
boVars == <<bo, used, open, dumb, mappings>>

BoInit ==
  /\ bo = [b \in Bos |-> [fd |-> 0, handle |-> 0, ptr |-> FALSE]]
  /\ used = {} /\ open = {0} /\ dumb = {} /\ mappings = {}

\* close(fd): the kernel destroys the dumb buffers of a card's descriptor.
CloseCard(f, left) == open' = open \ {f} /\ dumb' = {d \in left : d[1] # f}

\* Defect: the fields are set when the buffer exists, not before.
EmptyBo_Late(b) == bo[b]
\* bo_info->fd = -1; bo_info->handle = 0
EmptyBo(b) == [bo[b] EXCEPT !.fd = -1, !.handle = 0]

\* RkRgaGetAllocBuffer, RkRgaGetAllocBufferCache: open the card, create the
\* buffer; a card whose buffer could not be created is closed again.
RkRgaGetAllocBufferExt(b) ==
  /\ b \in used => bo[b].fd = -1
  /\ used' = used \cup {b}
  /\ \/ bo' = [bo EXCEPT ![b] = EmptyBo(b)] /\ UNCHANGED <<open, dumb>>
     \/ \E f \in CardFds \ open :
          /\ bo' = [bo EXCEPT ![b] = [EmptyBo(b) EXCEPT !.fd = f, !.handle = 1]]
          /\ open' = open \cup {f} /\ dumb' = dumb \cup {<<f, b>>}
  /\ UNCHANGED mappings

\* DRM_IOCTL_MODE_DESTROY_DUMB, which may fail and leaves the handle then.
DestroyDumb(b) ==
  {[handle |-> 0, dumb |-> dumb \ {<<bo[b].fd, b>>}], [handle |-> bo[b].handle, dumb |-> dumb]}
RkRgaFreeBuffer(b) ==
  /\ b \in used /\ bo[b].fd >= 0 /\ bo[b].handle # 0
  /\ \E r \in DestroyDumb(b) : bo' = [bo EXCEPT ![b].handle = r.handle] /\ dumb' = r.dumb
  /\ UNCHANGED <<used, open, mappings>>

\* RkRgaFree: RkRgaFreeBuffer, and the card is closed whatever that answered.
RkRgaFree(b) ==
  /\ b \in used /\ bo[b].fd >= 0
  /\ \E r \in IF bo[b].handle = 0 THEN {[handle |-> 0, dumb |-> dumb]} ELSE DestroyDumb(b) :
       /\ bo' = [bo EXCEPT ![b].handle = r.handle, ![b].fd = -1]
       /\ CloseCard(bo[b].fd, r.dumb)
  /\ UNCHANGED <<used, mappings>>

\* RkRgaGetMmap: the ioctl wants the buffer to be there; it or mmap may fail.
RkRgaGetMmap(b) ==
  /\ b \in used /\ ~bo[b].ptr /\ <<bo[b].fd, b>> \in dumb
  /\ bo' = [bo EXCEPT ![b].ptr = TRUE] /\ mappings' = mappings \cup {b}
  /\ UNCHANGED <<used, open, dumb>>

RkRgaUnmap(b) ==
  /\ bo[b].ptr
  /\ bo' = [bo EXCEPT ![b].ptr = FALSE] /\ mappings' = mappings \ {b}
  /\ UNCHANGED <<used, open, dumb>>

BoNext == \E b \in Bos :
  \/ RkRgaGetAllocBufferExt(b) \/ RkRgaFreeBuffer(b) \/ RkRgaFree(b)
  \/ RkRgaGetMmap(b) \/ RkRgaUnmap(b)

-----------------------------------------------------------------------------
\* Whatever fails, and in whatever order buffers are allocated, mapped and
\* freed, also after a failed allocation or twice: the open cards are those the
\* bo_t structures name, each its own, with the buffer its handle says; no
\* other descriptor of the process was closed; a pointer that is set is mapped.
BoOwnsItsCard ==
  /\ open = {0} \cup {bo[b].fd : b \in {u \in used : bo[u].fd >= 0}}
  /\ \A b \in Bos : /\ {d[1] : d \in {e \in dumb : e[2] = b}} =
                         IF bo[b].fd >= 0 /\ bo[b].handle # 0 THEN {bo[b].fd} ELSE {}
                    /\ bo[b].ptr <=> b \in mappings
=============================================================================
