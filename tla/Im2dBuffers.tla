----------------------------- MODULE Im2dBuffers -----------------------------
(***************************************************************************)
(* importbuffer_* and releasebuffer_handle of im2d_api/src/im2d.cpp on top *)
(* of the session: the driver maps a buffer for the descriptor the ioctl   *)
(* came through and forgets it when that descriptor is closed.  Every      *)
(* thread in Importers has one buffer.  As the samples do, it takes 0 for  *)
(* "importbuffer failed".                                                  *)
(***************************************************************************)
EXTENDS Im2dSession

CONSTANT Importers
ASSUME ImportersAssumption == Importers \subseteq Threads

VARIABLES mapped,  \* <<descriptor, thread>>: the buffers the driver has mapped
          handle   \* handle[t]: the rga_buffer_handle_t thread t holds
bufVars == <<vars, mapped, handle>>

\* What the driver gives out; 0; and IM_STATUS_NOT_SUPPORTED, which
\* as a uint32_t is not 0 and no handle of the driver either.
Valid == 1
NotSupported == -1

BufInit == Init /\ mapped = {} /\ handle = [t \in Importers |-> 0]

\* rga_import_buffer, or rga_import_buffer_param with a format it knows.
importbuffer(t) ==
  /\ pc[t] = "idle" /\ loaded /\ handle[t] = 0
  /\ Goto(t, "lookup") /\ caller' = [caller EXCEPT ![t] = "import"]
  /\ UNCHANGED <<librga, writer, session, fds, fd, loaded, mapped, handle>>

\* rga_import_buffer_param returns its status as the handle.
ImportUnknownFormat(t) ==
  /\ pc[t] = "idle" /\ loaded /\ handle[t] = 0
  /\ handle' = [handle EXCEPT ![t] = NotSupported]
  /\ UNCHANGED <<vars, mapped>>

\* RGA_IOC_IMPORT_BUFFER through the session's descriptor.
rga_import_buffers(t) ==
  /\ pc[t] = "import"
  /\ \/ /\ mapped' = mapped \cup {<<rga_dev_fd, t>>}
        /\ handle' = [handle EXCEPT ![t] = Valid]
     \/ UNCHANGED <<mapped, handle>>
  /\ Goto(t, "idle")
  /\ UNCHANGED <<librga, writer, session, fds, fd, loaded, caller>>

releasebuffer_handle(t) ==
  /\ pc[t] = "idle" /\ loaded /\ handle[t] # 0
  /\ Goto(t, "lookup") /\ caller' = [caller EXCEPT ![t] = "release"]
  /\ UNCHANGED <<librga, writer, session, fds, fd, loaded, mapped, handle>>

\* RGA_IOC_RELEASE_BUFFER fails for a handle the driver does not have.
rga_release_buffers(t) ==
  /\ pc[t] = "release"
  /\ mapped' = IF handle[t] = Valid THEN mapped \ {<<rga_dev_fd, t>>} ELSE mapped
  /\ handle' = [handle EXCEPT ![t] = 0]
  /\ Goto(t, "idle")
  /\ UNCHANGED <<librga, writer, session, fds, fd, loaded, caller>>

\* The session's own steps; the driver drops what a closed descriptor had.
SessionStep ==
  /\ Unload \/ \E t \in Threads : CallApi(t) \/ Inside(t)
  /\ mapped' = {m \in mapped : m[1] \in fds'}
  /\ UNCHANGED <<librga, handle>>

BufNext ==
  Alive /\ (\/ SessionStep
            \/ \E t \in Importers : \/ importbuffer(t) \/ ImportUnknownFormat(t)
                                    \/ rga_import_buffers(t) \/ releasebuffer_handle(t)
                                    \/ rga_release_buffers(t))
BufSpec == BufInit /\ [][BufNext]_bufVars

-----------------------------------------------------------------------------
\* As long as the library is loaded, a thread that holds a handle finds its
\* buffer mapped through the descriptor the session has now, and one that was
\* told 0 left nothing mapped behind: whatever other threads initialise, fail
\* to initialise or import in between.
HandlesAreMapped ==
  loaded => \A t \in Importers :
    pc[t] = "idle" =>
      {m \in mapped : m[2] = t} = IF handle[t] = Valid THEN {<<rga_dev_fd, t>>} ELSE {}
=============================================================================
