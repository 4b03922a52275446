-------------------------- MODULE DeviceSelection --------------------------
(***************************************************************************)
(* How GpuWrapper (xk-vulkan/vk_gpu_wrapper.cpp) judges a physical device: *)
(* findQueueFamilies, areDeviceExtensionsSupported, querySwapChainSupport, *)
(* isGpuGood and the loop of pickGpu, as operators on what the driver      *)
(* reports.                                                                *)
(*                                                                         *)
(* A definition whose name ends in an underscore is the definition of that *)
(* name, after it, with a plausible slip that the code does not make.      *)
(***************************************************************************)
EXTENDS Naturals, SequencesExt

\* The bits of VkQueueFlags that the code asks for.
Operations == {"graphics", "compute", "transfer"}

Family == [queueCount : Nat, queueFlags : SUBSET Operations, presentSupport : BOOLEAN]

\* What the driver reports of a device.  The one required extension is the
\* swap chain; swapChain says whether the surface has formats and present modes.
Extensions == {"none", "others", "swapchain"}
Gpu == [families : Seq(Family), extensions : Extensions, swapChain : BOOLEAN,
        samplerAnisotropy : BOOLEAN]

\* An empty std::optional.  Families and devices are numbered from 1 here.
None == 0

isComplete(indices) ==
    indices.graphicsFamily # None /\ indices.presentFamily # None

HasOperations(family, operations) ==
    family.queueCount > 0 /\ family.queueFlags \cap operations # {}

HasPresentation(family) == family.queueCount > 0 /\ family.presentSupport

\* Slip: the loop does not stop at the first complete pair and overwrites it,
\* and forgets that a family may have no queue.
findQueueFamilies_(families, operations) ==
    FoldLeftDomain(
        LAMBDA indices, i :
            [graphicsFamily |-> IF families[i].queueFlags \cap operations # {}
                                THEN i ELSE indices.graphicsFamily,
             presentFamily |-> IF families[i].presentSupport
                               THEN i ELSE indices.presentFamily],
        [graphicsFamily |-> None, presentFamily |-> None], families)

\* One pass over the families, to the first one that completes the pair: the
\* last family seen that has any of the operations, and the last that presents.
findQueueFamilies(families, operations) ==
    LET indices[i \in 0 .. Len(families)] ==
            IF i = 0 THEN [graphicsFamily |-> None, presentFamily |-> None]
            ELSE IF isComplete(indices[i - 1]) THEN indices[i - 1]
            ELSE [graphicsFamily |-> IF HasOperations(families[i], operations)
                                     THEN i ELSE indices[i - 1].graphicsFamily,
                  presentFamily |-> IF HasPresentation(families[i])
                                    THEN i ELSE indices[i - 1].presentFamily]
    IN  indices[Len(families)]

isGpuGood(gpu, operations) ==
    /\ isComplete(findQueueFamilies(gpu.families, operations))
    /\ gpu.extensions = "swapchain"
    /\ gpu.swapChain
    /\ gpu.samplerAnisotropy

\* areDeviceExtensionsSupported throws at a device without any extension.
Throws(gpu) == gpu.extensions = "none"

\* Slip: the loop does not break, and the last good device is kept.
DecidingGpu_(gpus) ==
    SelectLastInSeq(gpus, LAMBDA gpu : Throws(gpu) \/ isGpuGood(gpu, Operations))

\* The device at which the loop of pickGpu ends: the first that is good, or
\* that throws; None if there is neither.
DecidingGpu(gpus) ==
    SelectInSeq(gpus, LAMBDA gpu : Throws(gpu) \/ isGpuGood(gpu, Operations))
=============================================================================
