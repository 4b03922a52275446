----------------------------- MODULE SwapChain -----------------------------
(***************************************************************************)
(* xk::graphics_engine::vulkan::SwapChain (xk-vulkan/vk_swap_chain.h and   *)
(* .cpp): the frame loop of acquireNextImage and submitCommandBuffers; the *)
(* copies of GpuWrapper (vk_gpu_wrapper.cpp), which share its graphics     *)
(* queue; and the device and presentation engine that both work with.      *)
(*                                                                         *)
(* For each of ImagesInFlight frames the class keeps two semaphores and a  *)
(* fence, and for each image the fence of the frame that last rendered it. *)
(* The caller calls acquireNextImage, records a command buffer for the     *)
(* image (it keeps one for each image) and calls submitCommandBuffers.     *)
(* Between these calls it may call copyBuffer or copyBufferToImage.        *)
(*                                                                         *)
(* What Vulkan does is modelled from how the code uses it. The device      *)
(* executes renders and copies of the graphics queue in their order, and   *)
(* the presentation engine the presents in theirs; when both are one queue *)
(* (SameQueue) it executes them all in order. An executed present hands    *)
(* its image to the engine, which reads it until it releases it. A present *)
(* that the engine refuses is executed without showing its image.          *)
(*                                                                         *)
(* A definition whose name ends in an underscore is the definition of that *)
(* name, after it, with a plausible slip that the code does not make.      *)
(***************************************************************************)
EXTENDS Integers, SequencesExt

CONSTANTS
    ImagesInFlight,
    ImageCount,     \* the number of images in the chain
    SameQueue,      \* whether graphicsQueue and presentQueue are one queue
    SubmitMayFail,  \* whether vkQueueSubmit may fail
    PresentMayFail  \* whether vkQueuePresentKHR may

Frames == 0 .. ImagesInFlight - 1
Images == 0 .. ImageCount - 1
NoImage == ImageCount
NullHandle == ImagesInFlight  \* VK_NULL_HANDLE among the fences

ASSUME SwapChainAssumption ==
    /\ ImagesInFlight \in Nat \ {0}
    /\ ImageCount \in Nat \ {0, 1}
    /\ {SameQueue, SubmitMayFail, PresentMayFail} \subseteq BOOLEAN

VARIABLES
    m_inFlightFences,  \* frame -> whether its fence is signalled
    imageAvailable,    \* frame -> whether its semaphore is signalled
    renderFinished,    \* frame -> whether its semaphore is signalled
    m_imagesInFlight,  \* image -> a frame, whose fence it is, or NullHandle
    m_currentFrame,
    pc,        \* the caller is idle, has acquired an image, or is in a call:
               \* acquire; prepare, submit, present; copy, waitIdle
    image,     \* the image it has acquired, or NoImage
    work,      \* what is submitted and not executed, in order of submission
    reading,   \* the images that the engine reads, in order
    ahead,     \* frame -> how many images the engine has to release before it
               \* signals imageAvailable, 0 if it is about to, or NotDue
    failed,    \* a submission has failed
    dropped    \* the frames and images whose present was not even queued

vars == <<m_inFlightFences, imageAvailable, renderFinished, m_imagesInFlight,
          m_currentFrame, pc, image, work, reading, ahead, failed, dropped>>
gpu == <<renderFinished, work, reading>>

NotDue == -1

\* What is submitted to the graphics queue; the others go to the present queue.
Graphics == {"render", "copy"}

\* Slip: createSyncObjects creates the fences without the signalled bit.
Init_ ==
    /\ m_inFlightFences = [f \in Frames |-> FALSE]
    /\ imageAvailable = [f \in Frames |-> FALSE]
    /\ renderFinished = [f \in Frames |-> FALSE]
    /\ m_imagesInFlight = [i \in Images |-> NullHandle]
    /\ m_currentFrame = 0
    /\ pc = "idle"
    /\ image = NoImage
    /\ work = << >>
    /\ reading = << >>
    /\ ahead = [f \in Frames |-> NotDue]
    /\ failed = FALSE
    /\ dropped = {}

\* createSyncObjects: the fences are created signalled, so that the first
\* waits return, and no image is in flight.
Init ==
    /\ m_inFlightFences = [f \in Frames |-> TRUE]
    /\ imageAvailable = [f \in Frames |-> FALSE]
    /\ renderFinished = [f \in Frames |-> FALSE]
    /\ m_imagesInFlight = [i \in Images |-> NullHandle]
    /\ m_currentFrame = 0
    /\ pc = "idle"
    /\ image = NoImage
    /\ work = << >>
    /\ reading = << >>
    /\ ahead = [f \in Frames |-> NotDue]
    /\ failed = FALSE
    /\ dropped = {}

-----------------------------------------------------------------------------
(***************************************************************************)
(* The caller's thread.                                                    *)
(***************************************************************************)

\* How many images the engine will have released when it has released that of
\* the m-th submission, a present: it releases them in the order in which it
\* gets them.
Turn(m) == Len(reading) + Cardinality({k \in 1 .. m : work[k].kind = "present"})

\* How many releases there are until i has been released for the last time.
ReleasesUntil(i) ==
    Max({0} \cup {p \in DOMAIN reading : reading[p] = i}
            \cup {Turn(m) : m \in {m \in DOMAIN work : /\ work[m].kind = "present"
                                                       /\ work[m].image = i}})

\* The engine may hand out an image that it still reads, or is to get, and
\* signals the semaphore when it has finished; but not the image that stays on
\* the screen, one whose refused present is not yet executed, nor one that the
\* caller acquired and could not present.
CanAcquire(i) ==
    /\ ReleasesUntil(i) = 0 \/ ReleasesUntil(i) < Turn(Len(work))
    /\ \A n \in DOMAIN work : work[n].kind = "refused" => work[n].image # i
    /\ \A d \in dropped : d.image # i

Acquire ==
    /\ pc = "idle"
    /\ pc' = "acquire"
    /\ UNCHANGED <<m_inFlightFences, imageAvailable, m_imagesInFlight,
                   m_currentFrame, image, ahead, failed, dropped,
                   gpu>>

\* Slip: acquireNextImage does not wait for the frame's fence.
Acquired_(i) ==
    /\ pc = "acquire"
    /\ CanAcquire(i)
    /\ pc' = "acquired"
    /\ image' = i
    /\ ahead' = [ahead EXCEPT ![m_currentFrame] = ReleasesUntil(i)]
    /\ UNCHANGED <<m_inFlightFences, imageAvailable, m_imagesInFlight,
                   m_currentFrame, failed, dropped, gpu>>

\* vkWaitForFences on the frame's fence, then vkAcquireNextImageKHR returns
\* image i, to be used once imageAvailable is signalled.
Acquired(i) ==
    /\ pc = "acquire"
    /\ m_inFlightFences[m_currentFrame]
    /\ CanAcquire(i)
    /\ pc' = "acquired"
    /\ image' = i
    /\ ahead' = [ahead EXCEPT ![m_currentFrame] = ReleasesUntil(i)]
    /\ UNCHANGED <<m_inFlightFences, imageAvailable, m_imagesInFlight,
                   m_currentFrame, failed, dropped, gpu>>

\* vkAcquireNextImageKHR reports an error: no image, and no signal.
AcquireFails ==
    /\ pc = "acquire"
    /\ m_inFlightFences[m_currentFrame]
    /\ pc' = "idle"
    /\ UNCHANGED <<m_inFlightFences, imageAvailable, m_imagesInFlight,
                   m_currentFrame, image, ahead, failed, dropped,
                   gpu>>

SubmitCommandBuffers ==
    /\ pc = "acquired"
    /\ pc' = "prepare"
    /\ UNCHANGED <<m_inFlightFences, imageAvailable, m_imagesInFlight,
                   m_currentFrame, image, ahead, failed, dropped,
                   gpu>>

\* Slip: submitCommandBuffers does not wait for the image's last render.
Prepare_ ==
    /\ pc = "prepare"
    /\ m_imagesInFlight' = [m_imagesInFlight EXCEPT ![image] = m_currentFrame]
    /\ m_inFlightFences' = [m_inFlightFences EXCEPT ![m_currentFrame] = FALSE]
    /\ pc' = "submit"
    /\ UNCHANGED <<imageAvailable, m_currentFrame, image, ahead, failed, dropped,
                   gpu>>

\* submitCommandBuffers waits for the last render of the image, notes that
\* this frame renders it now, and resets the frame's fence.
Prepare ==
    /\ pc = "prepare"
    /\ m_imagesInFlight[image] # NullHandle =>
            m_inFlightFences[m_imagesInFlight[image]]
    /\ m_imagesInFlight' = [m_imagesInFlight EXCEPT ![image] = m_currentFrame]
    /\ m_inFlightFences' = [m_inFlightFences EXCEPT ![m_currentFrame] = FALSE]
    /\ pc' = "submit"
    /\ UNCHANGED <<imageAvailable, m_currentFrame, image, ahead, failed, dropped,
                   gpu>>

\* vkQueueSubmit: wait for imageAvailable, signal renderFinished and the fence.
Submit ==
    /\ pc = "submit"
    /\ work' = Append(work, [kind |-> "render", frame |-> m_currentFrame,
                             image |-> image])
    /\ pc' = "present"
    /\ UNCHANGED <<m_inFlightFences, imageAvailable, renderFinished,
                   m_imagesInFlight, m_currentFrame, image, reading, ahead,
                   failed, dropped>>

\* vkQueueSubmit fails: the exception leaves the fence reset, the image
\* acquired and the frame current.
SubmitFails ==
    /\ SubmitMayFail
    /\ pc = "submit"
    /\ pc' = "idle"
    /\ image' = NoImage
    /\ failed' = TRUE
    /\ UNCHANGED <<m_inFlightFences, imageAvailable, m_imagesInFlight,
                   m_currentFrame, ahead, dropped, gpu>>

\* vkQueuePresentKHR queues a present, which waits for renderFinished.  If the
\* engine refuses it (the surface is lost or has changed) the wait is queued, and
\* the image is never shown.  If it returns another error nothing is queued: the
\* caller keeps the image and renderFinished is not waited for.
QueuePresent ==
    \/ /\ \E kind \in {"present"} \cup (IF PresentMayFail THEN {"refused"} ELSE {}) :
            work' = Append(work, [kind |-> kind, frame |-> m_currentFrame,
                                  image |-> image])
       /\ UNCHANGED dropped
    \/ /\ PresentMayFail
       /\ dropped' = dropped \cup {[frame |-> m_currentFrame, image |-> image]}
       /\ UNCHANGED work

\* Slip: the number of the frame does not wrap round.
Present_ ==
    /\ pc = "present"
    /\ QueuePresent
    /\ m_currentFrame' = m_currentFrame + 1
    /\ pc' = "idle"
    /\ image' = NoImage
    /\ UNCHANGED <<m_inFlightFences, imageAvailable, renderFinished,
                   m_imagesInFlight, reading, ahead, failed>>

\* The frame advances, and the image is forgotten, whatever vkQueuePresentKHR
\* returns; submitCommandBuffers returns its result to the caller.
Present ==
    /\ pc = "present"
    /\ QueuePresent
    /\ m_currentFrame' = (m_currentFrame + 1) % ImagesInFlight
    /\ pc' = "idle"
    /\ image' = NoImage
    /\ UNCHANGED <<m_inFlightFences, imageAvailable, renderFinished,
                   m_imagesInFlight, reading, ahead, failed>>

-----------------------------------------------------------------------------
(***************************************************************************)
(* The copies: a command buffer is allocated, submitted and freed.         *)
(***************************************************************************)

\* beginSingleTimeCommands and the command, before a frame or within one.
BeginCopy ==
    /\ pc \in {"idle", "acquired"}
    /\ pc' = "copy"
    /\ UNCHANGED <<m_inFlightFences, imageAvailable, m_imagesInFlight,
                   m_currentFrame, image, ahead, failed, dropped,
                   gpu>>

\* endSingleTimeCommands submits without a fence.  The result of vkQueueSubmit
\* is not looked at: when it fails nothing was submitted.
SubmitCopy ==
    /\ pc = "copy"
    /\ \/ work' = Append(work, [kind |-> "copy", frame |-> NullHandle, image |-> NoImage])
       \/ SubmitMayFail /\ UNCHANGED work
    /\ pc' = "waitIdle"
    /\ UNCHANGED <<m_inFlightFences, imageAvailable, renderFinished,
                   m_imagesInFlight, m_currentFrame, image, reading, ahead,
                   failed, dropped>>

\* Slip: the command buffer is freed without waiting for the queue.
FinishCopy_ ==
    /\ pc = "waitIdle"
    /\ pc' = IF image = NoImage THEN "idle" ELSE "acquired"
    /\ UNCHANGED <<m_inFlightFences, imageAvailable, m_imagesInFlight,
                   m_currentFrame, image, ahead, failed, dropped,
                   gpu>>

\* vkQueueWaitIdle waits for all that was submitted to the graphics queue but
\* the presents, and the command buffer is freed.
FinishCopy ==
    /\ pc = "waitIdle"
    /\ \A n \in DOMAIN work : work[n].kind \notin Graphics
    /\ pc' = IF image = NoImage THEN "idle" ELSE "acquired"
    /\ UNCHANGED <<m_inFlightFences, imageAvailable, m_imagesInFlight,
                   m_currentFrame, image, ahead, failed, dropped,
                   gpu>>

-----------------------------------------------------------------------------
(***************************************************************************)
(* The device and the presentation engine.                                 *)
(***************************************************************************)

\* The n-th of the submissions is the next to be executed on its queue.
NextInQueue(n) ==
    \A m \in 1 .. n - 1 :
        ~SameQueue /\ (work[m].kind \in Graphics) # (work[n].kind \in Graphics)

\* Slip: the submission does not name imageAvailable among its wait semaphores.
CanRender_(n) ==
    /\ work[n].kind = "render"
    /\ NextInQueue(n)

\* A render waits for imageAvailable, and signals renderFinished and its fence
\* when it is done.
CanRender(n) ==
    /\ work[n].kind = "render"
    /\ NextInQueue(n)
    /\ imageAvailable[work[n].frame]

\* Slip: the submission does not name renderFinished among its signal semaphores.
Render_(n) ==
    /\ CanRender(n)
    /\ LET f == work[n].frame
       IN  /\ imageAvailable' = [imageAvailable EXCEPT ![f] = FALSE]
           /\ m_inFlightFences' = [m_inFlightFences EXCEPT ![f] = TRUE]
    /\ work' = RemoveAt(work, n)
    /\ UNCHANGED <<renderFinished, m_imagesInFlight, m_currentFrame, pc, image,
                   reading, ahead, failed, dropped>>

Render(n) ==
    /\ CanRender(n)
    /\ LET f == work[n].frame
       IN  /\ imageAvailable' = [imageAvailable EXCEPT ![f] = FALSE]
           /\ renderFinished' = [renderFinished EXCEPT ![f] = TRUE]
           /\ m_inFlightFences' = [m_inFlightFences EXCEPT ![f] = TRUE]
    /\ work' = RemoveAt(work, n)
    /\ UNCHANGED <<m_imagesInFlight, m_currentFrame, pc, image, reading, ahead,
                   failed, dropped>>

Copy(n) ==
    /\ work[n].kind = "copy"
    /\ NextInQueue(n)
    /\ work' = RemoveAt(work, n)
    /\ UNCHANGED <<m_inFlightFences, imageAvailable, renderFinished,
                   m_imagesInFlight, m_currentFrame, pc, image, reading, ahead,
                   failed, dropped>>

\* A present waits for renderFinished and passes its image to the engine.
CanShow(n) ==
    /\ work[n].kind = "present"
    /\ NextInQueue(n)
    /\ renderFinished[work[n].frame]

\* Slip: the present does not name renderFinished among its wait semaphores.
Show_(n) ==
    /\ work[n].kind = "present"
    /\ NextInQueue(n)
    /\ reading' = Append(reading, work[n].image)
    /\ work' = RemoveAt(work, n)
    /\ UNCHANGED <<m_inFlightFences, imageAvailable, renderFinished,
                   m_imagesInFlight, m_currentFrame, pc, image, ahead, failed, dropped>>

Show(n) ==
    /\ CanShow(n)
    /\ renderFinished' = [renderFinished EXCEPT ![work[n].frame] = FALSE]
    /\ reading' = Append(reading, work[n].image)
    /\ work' = RemoveAt(work, n)
    /\ UNCHANGED <<m_inFlightFences, imageAvailable, m_imagesInFlight,
                   m_currentFrame, pc, image, ahead, failed, dropped>>

\* A refused present waits for renderFinished all the same.
Refuse(n) ==
    /\ work[n].kind = "refused"
    /\ NextInQueue(n)
    /\ renderFinished[work[n].frame]
    /\ renderFinished' = [renderFinished EXCEPT ![work[n].frame] = FALSE]
    /\ work' = RemoveAt(work, n)
    /\ UNCHANGED <<m_inFlightFences, imageAvailable, m_imagesInFlight,
                   m_currentFrame, pc, image, reading, ahead, failed, dropped>>

\* The engine has finished with an image; it keeps the last on the screen.
Release ==
    /\ Len(reading) > 1
    /\ reading' = Tail(reading)
    /\ ahead' = [f \in Frames |-> IF ahead[f] > 0 THEN ahead[f] - 1 ELSE ahead[f]]
    /\ UNCHANGED <<m_inFlightFences, imageAvailable, renderFinished,
                   m_imagesInFlight, m_currentFrame, pc, image, work, failed,
                   dropped>>

\* The image that was acquired for f may be written: imageAvailable.
Available(f) ==
    /\ ahead[f] = 0
    /\ ahead' = [ahead EXCEPT ![f] = NotDue]
    /\ imageAvailable' = [imageAvailable EXCEPT ![f] = TRUE]
    /\ UNCHANGED <<m_inFlightFences, m_imagesInFlight, m_currentFrame, pc,
                   image, failed, dropped, gpu>>

-----------------------------------------------------------------------------
Calls == {"acquire", "prepare", "submit", "present", "copy", "waitIdle"}

\* What happens inside a call.
CallProgress ==
    \/ \E i \in Images : Acquired(i)
    \/ Prepare
    \/ Submit
    \/ SubmitFails
    \/ Present
    \/ SubmitCopy
    \/ FinishCopy

Engine ==
    \/ \E n \in DOMAIN work : Render(n) \/ Copy(n) \/ Show(n) \/ Refuse(n)
    \/ Release
    \/ \E f \in Frames : Available(f)

Next ==
    \/ Acquire
    \/ SubmitCommandBuffers
    \/ BeginCopy
    \/ AcquireFails
    \/ CallProgress
    \/ Engine

Spec == Init /\ [][Next]_vars

\* The device and the engine go on with what was submitted, one frame's
\* semaphore after the other, and the caller's thread runs.  Nothing makes
\* vkAcquireNextImageKHR fail: it has no timeout.
Fairness ==
    /\ WF_vars(CallProgress)
    /\ WF_vars(\E n \in DOMAIN work : Render(n))
    /\ WF_vars(\E n \in DOMAIN work : Copy(n))
    /\ WF_vars(\E n \in DOMAIN work : Show(n))
    /\ WF_vars(\E n \in DOMAIN work : Refuse(n))
    /\ WF_vars(Release)
    /\ \A f \in Frames : WF_vars(Available(f))

FairSpec == Spec /\ Fairness

-----------------------------------------------------------------------------
(***************************************************************************)
(* Properties.                                                             *)
(***************************************************************************)

\* Every variable has its type.
TypeOK ==
    /\ m_inFlightFences \in [Frames -> BOOLEAN]
    /\ imageAvailable \in [Frames -> BOOLEAN]
    /\ renderFinished \in [Frames -> BOOLEAN]
    /\ m_imagesInFlight \in [Images -> Frames \cup {NullHandle}]
    /\ m_currentFrame \in Frames
    /\ pc \in {"idle", "acquired"} \cup Calls
    /\ image \in Images \cup {NoImage}
    /\ work \in Seq([kind : {"render", "present", "refused"}, frame : Frames,
                     image : Images]
                    \cup [kind : {"copy"}, frame : {NullHandle}, image : {NoImage}])
    /\ reading \in Seq(Images)
    /\ ahead \in [Frames -> Nat \cup {NotDue}]
    /\ failed \in BOOLEAN
    /\ dropped \subseteq [frame : Frames, image : Images]

\* When a frame is submitted nothing that was submitted before still uses its
\* fence or its imageAvailable semaphore, and the command buffer and depth
\* image of its image are in no other render: acquireNextImage waited for the
\* frame's fence and submitCommandBuffers for that of the image's last frame.
ResourcesFree ==
    pc = "submit" => \A n \in DOMAIN work : work[n].kind = "render" =>
        work[n].frame # m_currentFrame /\ work[n].image # image

\* The semaphore that vkAcquireNextImageKHR is given is unsignalled and no
\* signal of it is due: its frame has consumed the signal of its last image.
AcquireSemaphoreFree ==
    [][pc = "acquire" /\ pc' = "acquired" =>
        ~imageAvailable[m_currentFrame] /\ ahead[m_currentFrame] = NotDue]_vars

\* The presents of f come after its renders: nothing is known of that when a
\* present of it was dropped, whose renderFinished is left signalled for the next
\* one, unless the queue itself keeps the order.
Ordered(f) == SameQueue \/ \A d \in dropped : d.frame # f

\* No present is executed before the render of its image, although the frame's
\* fence does not tell whether its last present has consumed renderFinished.
PresentsRendered ==
    \A n \in DOMAIN work : CanShow(n) /\ Ordered(work[n].frame) =>
        \A m \in 1 .. n - 1 : work[m].image # work[n].image

\* The engine does not read an image while a render writes it, nor is it to get
\* the image for an earlier present.
NoTearing ==
    \A n \in DOMAIN work : CanRender(n) /\ Ordered(work[n].frame) =>
        /\ \A r \in DOMAIN reading : reading[r] # work[n].image
        /\ \A m \in 1 .. n - 1 :
                work[m].kind # "refused" => work[m].image # work[n].image

\* A copy, which waits for the whole graphics queue, leaves no frame in flight:
\* all fences are signalled when it returns, but for those of failed
\* submissions.
CopyDrainsFrames ==
    [][pc = "waitIdle" /\ pc' # "waitIdle" =>
        failed \/ \A f \in Frames : m_inFlightFences[f]]_vars

\* acquireNextImage, submitCommandBuffers and the copies return: the fences
\* that they wait for without a timeout are signalled in the end and the queue
\* becomes idle, also in the middle of a frame, unless a submission failed; and
\* an image is acquired, as long as the presents that were not queued have left
\* one besides that on the screen.
CallsReturn ==
    pc \in Calls ~>
        \/ pc \notin Calls
        \/ failed
        \/ pc = "acquire" /\ Cardinality(dropped) > ImageCount - 2

\* Every image whose present was queued, and not refused, reaches the engine.
EveryFrameShown ==
    \A i \in Images :
        (\E n \in DOMAIN work : work[n].kind = "present" /\ work[n].image = i)
            ~> (\E n \in DOMAIN reading : reading[n] = i)
=============================================================================
