--------------------------- MODULE SwapChainSetup ---------------------------
(***************************************************************************)
(* The life of a SwapChain (xk-vulkan/vk_swap_chain.cpp): what its         *)
(* constructor chooses from the offers of the driver, the objects that its *)
(* stages make, one Vulkan call after the other, any of which may fail,    *)
(* and the destructor.  SwapChain models what happens in between.          *)
(*                                                                         *)
(* live is the set of the objects that exist, <<kind, i>> being the i-th   *)
(* of its kind.  pc names the stage, and i counts its calls.               *)
(*                                                                         *)
(* A definition whose name ends in an underscore is the definition of that *)
(* name, after it, with a plausible slip that the code does not make.      *)
(***************************************************************************)
EXTENDS Integers, SequencesExt

CONSTANTS
    ImagesInFlight,
    ExtraImages,   \* how many images more than it was asked for a driver makes
    Drivers        \* what drivers may offer

Bad == 255  \* Bad<u32>(), in eight bits
None == 0
Extent == [width : 0 .. Bad, height : 0 .. Bad]

Preferred == [format |-> "B8G8R8A8_UNORM", colorSpace |-> "SRGB_NONLINEAR"]
Formats == [format : {"B8G8R8A8_UNORM", "R8G8B8A8_UNORM"},
            colorSpace : {"SRGB_NONLINEAR", "HDR10_ST2084"}]
PresentModes == {"mailbox", "immediate", "fifo"}

\* The candidates of findDepthFormat, best first.
DepthFormats == <<"D32_SFLOAT", "D32_SFLOAT_S8_UINT", "D24_UNORM_S8_UINT">>

Driver ==
    [minImageCount : Nat \ {0},
     maxImageCount : Nat,            \* 0 stands for no limit
     currentExtent : Extent,         \* of width Bad when the window decides
     minImageExtent : Extent,
     maxImageExtent : Extent,
     formats : Seq(Formats),
     presentModes : Seq(PresentModes),
     depthFormats : SUBSET ToSet(DepthFormats),
     memoryTypes : Seq(SUBSET {"device_local", "host_visible"}),
     memoryTypeBits : SUBSET Nat]    \* the types in which a depth image may lie

Within(extent, driver) ==
    /\ extent.width \in driver.minImageExtent.width .. driver.maxImageExtent.width
    /\ extent.height \in driver.minImageExtent.height .. driver.maxImageExtent.height

\* What Vulkan guarantees of these offers, and that isGpuGood has found formats
\* and present modes.
ASSUME SetupAssumption ==
    /\ ImagesInFlight \in Nat \ {0}
    /\ ExtraImages \in Nat
    /\ Drivers \subseteq Driver
    /\ \A d \in Drivers :
        /\ d.maxImageCount # 0 => d.minImageCount <= d.maxImageCount
        /\ d.currentExtent.width = Bad \/ Within(d.currentExtent, d)
        /\ Within(d.minImageExtent, d)
        /\ d.formats # << >>
        /\ "fifo" \in ToSet(d.presentModes)

-----------------------------------------------------------------------------
(***************************************************************************)
(* The choices.                                                            *)
(***************************************************************************)

chooseSwapSurfaceFormat(formats) ==
    IF Preferred \in ToSet(formats) THEN Preferred ELSE formats[1]

\* Slip: immediate presentation is not looked for but taken for granted.
chooseSwapPresentMode_(modes) ==
    IF "mailbox" \in ToSet(modes) THEN "mailbox" ELSE "immediate"

chooseSwapPresentMode(modes) ==
    CASE "mailbox" \in ToSet(modes) -> "mailbox"
      [] "mailbox" \notin ToSet(modes) /\ "immediate" \in ToSet(modes) -> "immediate"
      [] OTHER -> "fifo"

\* Nothing assigns m_windowExtent, so that it keeps its initial value.
m_windowExtent == [width |-> 0, height |-> 0]

chooseSwapExtent(driver) ==
    IF driver.currentExtent.width # Bad THEN driver.currentExtent
    ELSE [side \in {"width", "height"} |->
            Max({driver.minImageExtent[side],
                 Min({driver.maxImageExtent[side], m_windowExtent[side]})})]

\* Slip: a maxImageCount of 0 is taken for a limit.
RequestedImages_(driver) == Min({driver.minImageCount + 1, driver.maxImageCount})

RequestedImages(driver) ==
    IF driver.maxImageCount > 0 THEN Min({driver.minImageCount + 1, driver.maxImageCount})
    ELSE driver.minImageCount + 1

\* The places in the lists of the first candidate that will do, None when the
\* functions throw.
findDepthFormat(driver) ==
    SelectInSeq(DepthFormats, LAMBDA f : f \in driver.depthFormats)

findMemoryType(driver, property) ==
    SelectInSeq([t \in DOMAIN driver.memoryTypes |->
                    IF t \in driver.memoryTypeBits THEN driver.memoryTypes[t] ELSE {}],
                LAMBDA flags : property \in flags)

-----------------------------------------------------------------------------
VARIABLES
    driver,
    pc,
    i,
    live,
    createInfo,  \* what the swap chain was created with, or NoInfo
    imageCount,  \* the number of m_swapChainImages
    memoryType   \* that of the depth images, or None

vars == <<driver, pc, i, live, createInfo, imageCount, memoryType>>

NoInfo == << >>

\* Slip: the framebuffers are made before the depth images that they use.
Constructor_ ==
    <<"createSwapChain", "createImageViews", "createRenderPass", "createFramebuffers",
      "createDepthResources", "createSyncObjects", "constructed">>

Constructor ==
    <<"createSwapChain", "createImageViews", "createRenderPass", "createDepthResources",
      "createFramebuffers", "createSyncObjects", "constructed">>

\* Slip: the swap chain is destroyed before the views of its images.
Destructor_ ==
    <<"constructed", "vkDestroySwapchainKHR", "vkDestroyImageView", "~depth",
      "vkDestroyFramebuffer", "vkDestroyRenderPass", "~sync", "destroyed">>

Destructor ==
    <<"constructed", "vkDestroyImageView", "vkDestroySwapchainKHR", "~depth",
      "vkDestroyFramebuffer", "vkDestroyRenderPass", "~sync", "destroyed">>

Init ==
    /\ driver \in Drivers
    /\ pc = Constructor[1]
    /\ i = 0
    /\ live = {}
    /\ createInfo = NoInfo
    /\ imageCount = 0
    /\ memoryType = None

\* The next stage of a list, or the next call of this stage when there are more.
Advance(stages, calls) ==
    IF i + 1 < calls THEN i' = i + 1 /\ pc' = pc
    ELSE i' = 0 /\ pc' = stages[SelectInSeq(stages, LAMBDA s : s = pc) + 1]

\* The object that the i-th call is about, in a loop over objects of these kinds.
Item(kinds) == <<kinds[(i % Len(kinds)) + 1], i \div Len(kinds)>>

\* An exception leaves the constructor, and the destructor does not run.
Throw == pc' = "failed" /\ UNCHANGED <<i, live, createInfo, imageCount, memoryType>>

Create(kinds, count) ==
    /\ live' = live \cup {Item(kinds)}
    /\ Advance(Constructor, Len(kinds) * count)

\* The driver makes as many images as it is asked for, or more.
CreateSwapChain ==
    /\ pc = "createSwapChain"
    /\ \/ /\ createInfo' = [imageFormat |-> chooseSwapSurfaceFormat(driver.formats),
                            presentMode |-> chooseSwapPresentMode(driver.presentModes),
                            imageExtent |-> chooseSwapExtent(driver),
                            minImageCount |-> RequestedImages(driver)]
          /\ imageCount' \in
                RequestedImages(driver) .. RequestedImages(driver) + ExtraImages
          /\ Create(<<"swapChain">>, 1)
          /\ UNCHANGED memoryType
       \/ Throw

CreateImageViews ==
    /\ pc = "createImageViews"
    /\ \/ Create(<<"imageView">>, imageCount) /\ UNCHANGED <<createInfo, imageCount, memoryType>>
       \/ Throw

CreateRenderPass ==
    /\ pc = "createRenderPass"
    /\ \/ /\ findDepthFormat(driver) # None
          /\ Create(<<"renderPass">>, 1)
          /\ UNCHANGED <<createInfo, imageCount, memoryType>>
       \/ Throw

\* For each image vkCreateImage, findMemoryType with vkAllocateMemory, and
\* vkCreateImageView; an image that cannot be bound is one without a view.
CreateDepthResources ==
    /\ pc = "createDepthResources"
    /\ \/ LET kinds == <<"depthImage", "depthMemory", "depthView">>
          IN  /\ IF Item(kinds)[1] = "depthMemory"
                 THEN /\ memoryType' = findMemoryType(driver, "device_local")
                      /\ memoryType' # None
                 ELSE memoryType' = memoryType
              /\ Create(kinds, imageCount)
              /\ UNCHANGED <<createInfo, imageCount>>
       \/ Throw

CreateFramebuffers ==
    /\ pc = "createFramebuffers"
    /\ \/ Create(<<"framebuffer">>, imageCount) /\ UNCHANGED <<createInfo, imageCount, memoryType>>
       \/ Throw

\* Slip: one set of objects for each image instead of each frame in flight.
CreateSyncObjects_ ==
    /\ pc = "createSyncObjects"
    /\ \/ /\ Create(<<"imageAvailable", "renderFinished", "inFlightFence">>, imageCount)
          /\ UNCHANGED <<createInfo, imageCount, memoryType>>
       \/ Throw

CreateSyncObjects ==
    /\ pc = "createSyncObjects"
    /\ \/ /\ Create(<<"imageAvailable", "renderFinished", "inFlightFence">>, ImagesInFlight)
          /\ UNCHANGED <<createInfo, imageCount, memoryType>>
       \/ Throw

-----------------------------------------------------------------------------
(***************************************************************************)
(* The destructor.                                                         *)
(***************************************************************************)

Destroy ==
    /\ pc = "constructed"
    /\ Advance(Destructor, 1)
    /\ UNCHANGED <<live, createInfo, imageCount, memoryType>>

Destroys(stage, kinds, count) ==
    /\ pc = stage
    /\ live' = live \ {Item(kinds)}
    /\ Advance(Destructor, Len(kinds) * count)
    /\ UNCHANGED <<createInfo, imageCount, memoryType>>

DestroyImageViews == Destroys("vkDestroyImageView", <<"imageView">>, imageCount)

DestroySwapchain == Destroys("vkDestroySwapchainKHR", <<"swapChain">>, 1)

DestroyDepthResources ==
    Destroys("~depth", <<"depthView", "depthImage", "depthMemory">>, imageCount)

\* Slip: one framebuffer for each frame in flight instead of each image.
DestroyFramebuffers_ == Destroys("vkDestroyFramebuffer", <<"framebuffer">>, ImagesInFlight)

DestroyFramebuffers == Destroys("vkDestroyFramebuffer", <<"framebuffer">>, imageCount)

DestroyRenderPass == Destroys("vkDestroyRenderPass", <<"renderPass">>, 1)

DestroySyncObjects ==
    Destroys("~sync", <<"renderFinished", "imageAvailable", "inFlightFence">>, ImagesInFlight)

Next ==
    /\ UNCHANGED driver
    /\ \/ CreateSwapChain
       \/ CreateImageViews
       \/ CreateRenderPass
       \/ CreateDepthResources
       \/ CreateFramebuffers
       \/ CreateSyncObjects
       \/ Destroy
       \/ DestroyImageViews
       \/ DestroySwapchain
       \/ DestroyDepthResources
       \/ DestroyFramebuffers
       \/ DestroyRenderPass
       \/ DestroySyncObjects

Spec == Init /\ [][Next]_vars

-----------------------------------------------------------------------------
(***************************************************************************)
(* Properties.                                                             *)
(***************************************************************************)

Of(kind, count) == {kind} \X (0 .. count - 1)

\* What a swap chain has for each image that the driver made, whatever number it
\* was asked for, and for each frame in flight.
ImageObjects ==
    UNION {Of(kind, imageCount) : kind \in {"imageView", "depthImage", "depthMemory",
                                            "depthView", "framebuffer"}}

FrameObjects ==
    UNION {Of(kind, ImagesInFlight) : kind \in {"imageAvailable", "renderFinished",
                                                "inFlightFence"}}

\* What it consists of when its constructor has returned.
Complete == ImageObjects \cup FrameObjects \cup Of("swapChain", 1) \cup Of("renderPass", 1)

\* Every variable has its type, and nothing exists that no swap chain has.
TypeOK ==
    /\ driver \in Drivers
    /\ pc \in ToSet(Constructor) \cup ToSet(Destructor) \cup {"failed"}
    /\ i \in Nat
    /\ live \subseteq Complete
    /\ createInfo = NoInfo \/ createInfo.imageFormat \in Formats
    /\ imageCount \in Nat
    /\ memoryType \in Nat

\* What was chosen the driver offers, whatever it offers: the format and the
\* present mode, an extent and a number of images between its bounds, memory
\* that a depth image may use.
ChoicesSupported ==
    createInfo # NoInfo =>
        /\ createInfo.imageFormat \in ToSet(driver.formats)
        /\ createInfo.presentMode \in ToSet(driver.presentModes)
        /\ Within(createInfo.imageExtent, driver)
        /\ createInfo.minImageCount >= driver.minImageCount
        /\ driver.maxImageCount = 0 \/ createInfo.minImageCount <= driver.maxImageCount
        /\ memoryType # None =>
            /\ memoryType \in driver.memoryTypeBits
            /\ "device_local" \in driver.memoryTypes[memoryType]

\* A framebuffer is made of the two views of its image and the render pass,
\* all of which exist by then.
AttachmentsExist ==
    pc \in ToSet(Constructor) =>
        \A n \in 0 .. imageCount - 1 :
            <<"framebuffer", n>> \in live =>
                {<<"imageView", n>>, <<"depthView", n>>, <<"renderPass", 0>>} \subseteq live

\* A view does not outlive its image, nor a depth image its memory once it has
\* a view, in the constructor and the destructor.
ImagesOutliveViews ==
    \A n \in 0 .. imageCount - 1 :
        /\ <<"imageView", n>> \in live => <<"swapChain", 0>> \in live
        /\ <<"depthView", n>> \in live =>
            {<<"depthImage", n>>, <<"depthMemory", n>>} \subseteq live

\* The constructor returns with everything that acquireNextImage and
\* submitCommandBuffers index by image or by frame, and the destructor leaves
\* nothing of it.
BuiltAndReleased ==
    /\ pc = "constructed" => live = Complete
    /\ pc = "destroyed" => live = {}
=============================================================================
