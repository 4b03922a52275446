------------------------------- MODULE Engine -------------------------------
(***************************************************************************)
(* The life of the engine: main constructs application::Core, whose        *)
(* constructor makes the graphics engine (vulkan::Core with a GpuWrapper   *)
(* and a Pipeline), the main window, and sets the one up for the other.    *)
(* Every stage may throw.  main constructs the application outside its try *)
(* block, so that an exception ends the program; whether the stack is      *)
(* unwound first, and the destructors run, is up to the implementation.    *)
(*                                                                         *)
(* live is the set of the GLFW and Vulkan objects that exist.  pc names    *)
(* the function that runs next; cleanUp is cut at its calls into Vulkan.   *)
(*                                                                         *)
(* A definition whose name ends in an underscore is the definition of that *)
(* name, after it, with a plausible slip that the code does not make.      *)
(***************************************************************************)
EXTENDS DeviceSelection

CONSTANTS
    GpuLists   \* what vkEnumeratePhysicalDevices may return: lists of devices

ASSUME GpuListsAssumption == GpuLists \subseteq Seq(Gpu)

VARIABLES
    ValidationLayersEnabled,  \* the template parameter
    gpus,             \* the list of devices
    pc,
    live,
    extensions,       \* those that the instance was created with
    m_gpu,            \* the number of the device that was picked, or None
    m_queues,         \* the families of m_graphicsQueue and m_presentQueue
    requestedFamilies,\* the families whose queues the device was created with
    poolFamily        \* the family of m_commandPool, or None

vars == <<ValidationLayersEnabled, gpus, pc, live, extensions, m_gpu, m_queues,
          requestedFamilies, poolFamily>>
inputs == <<ValidationLayersEnabled, gpus>>
choices == <<m_gpu, m_queues, requestedFamilies, poolFamily>>
created == <<live, extensions>>

Setup == {"init", "createVulkanInstance", "setupDebugger", "createPresentationSurface",
          "pickGpu", "createLogicalDevice", "createCommandPool", "createGraphicsPipeline"}
Teardown == {"~GenericWindow", "~Pipeline", "vkDestroyCommandPool", "vkDestroyDevice",
             "DestroyDebugUtilsMessengerEXT", "vkDestroySurfaceKHR", "vkDestroyInstance"}
Ended == {"terminated", "crashed", "unwound"}

Objects == {"glfw", "window", "instance", "messenger", "surface", "device", "pool"}

\* What the platform offers to an instance: whether the validation layers are
\* there, whether GLFW knows which extensions it needs, and the extensions that
\* the loader lists and those that a layer brings along when it is enabled.
Platforms == [layers : BOOLEAN, glfwSupport : BOOLEAN,
              listed : SUBSET {"glfw", "debugUtils"}, ofLayer : SUBSET {"debugUtils"}]

NoFamilies == [graphicsFamily |-> None, presentFamily |-> None]

Init ==
    /\ ValidationLayersEnabled \in BOOLEAN
    /\ gpus \in GpuLists
    /\ pc = "init"
    /\ live = {}
    /\ extensions = {}
    /\ m_gpu = None
    /\ m_queues = NoFamilies
    /\ requestedFamilies = {}
    /\ poolFamily = None

-----------------------------------------------------------------------------
(***************************************************************************)
(* The constructor of application::Core.                                   *)
(***************************************************************************)

Goto(label) == pc' = label /\ UNCHANGED inputs

\* An exception that nothing catches; unwinding starts with destructor.
Throw(destructor) == pc' \in {"terminated", destructor} /\ UNCHANGED inputs

\* Undefined behaviour of which the outcome is a crash.
Crash == Goto("crashed")

\* GenericWindow::init.  When it throws, the destructor of the window, which
\* terminates GLFW, is not run: the next one is that of the graphics engine.
\* The results of glfwInit and glfwCreateWindow are not looked at.
InitWindow ==
    /\ pc = "init"
    /\ UNCHANGED <<extensions, choices>>
    /\ \/ live' = {"glfw", "window"} /\ Goto("createVulkanInstance")
       \/ live' = {"glfw"} /\ (Throw("~Pipeline") \/ Crash)
       \/ live' = {} /\ Throw("~Pipeline")

requiredGlfwExtensions(platform) ==
    (IF platform.glfwSupport THEN {"glfw"} ELSE {})
    \cup (IF ValidationLayersEnabled THEN {"debugUtils"} ELSE {})

\* vkCreateInstance accepts the extensions of the layers that it enables.
CanCreateInstance(platform) ==
    /\ ValidationLayersEnabled => platform.layers
    /\ requiredGlfwExtensions(platform) # {}
    /\ requiredGlfwExtensions(platform) \subseteq
            platform.listed \cup IF ValidationLayersEnabled THEN platform.ofLayer ELSE {}

\* areGlfwExtensionsSupported looks at those that the loader lists.
areGlfwExtensionsSupported(platform) ==
    requiredGlfwExtensions(platform) \subseteq platform.listed

\* It throws before the instance exists, for want of a layer or an extension or
\* because vkCreateInstance fails, or after, when the extensions are compared.
CreateVulkanInstance ==
    /\ pc = "createVulkanInstance"
    /\ UNCHANGED choices
    /\ \E platform \in Platforms :
        /\ CanCreateInstance(platform)
        /\ live' = live \cup {"instance"}
        /\ extensions' = requiredGlfwExtensions(platform)
        /\ IF areGlfwExtensionsSupported(platform)
           THEN Goto("setupDebugger")
           ELSE Throw("~GenericWindow")

CreateInstanceFails ==
    /\ pc = "createVulkanInstance"
    /\ Throw("~GenericWindow")
    /\ UNCHANGED <<created, choices>>

\* CreateDebugUtilsMessengerEXT finds the function if the instance has the
\* extension.  The call is made in every build.
SetupDebugger ==
    /\ pc = "setupDebugger"
    /\ UNCHANGED <<extensions, choices>>
    /\ \/ /\ "debugUtils" \in extensions
          /\ live' = live \cup {"messenger"}
          /\ Goto("createPresentationSurface")
       \/ live' = live /\ Throw("~GenericWindow")

CreatePresentationSurface ==
    /\ pc = "createPresentationSurface"
    /\ UNCHANGED <<extensions, choices>>
    /\ \/ /\ "glfw" \in extensions
          /\ live' = live \cup {"surface"}
          /\ Goto("pickGpu")
       \/ live' = live /\ Throw("~GenericWindow")

\* Slip: m_gpu is not tested for VK_NULL_HANDLE after the loop.
PickGpu_ ==
    /\ pc = "pickGpu"
    /\ LET n == DecidingGpu(gpus)
       IN  IF n # None /\ Throws(gpus[n])
           THEN m_gpu' = m_gpu /\ Throw("~GenericWindow")
           ELSE m_gpu' = n /\ Goto("createLogicalDevice")
    /\ UNCHANGED <<created, m_queues, requestedFamilies, poolFamily>>

PickGpu ==
    /\ pc = "pickGpu"
    /\ LET n == DecidingGpu(gpus)
       IN  IF n = None \/ Throws(gpus[n])
           THEN m_gpu' = m_gpu /\ Throw("~GenericWindow")
           ELSE m_gpu' = n /\ Goto("createLogicalDevice")
    /\ UNCHANGED <<created, m_queues, requestedFamilies, poolFamily>>

CreateLogicalDevice ==
    /\ pc = "createLogicalDevice"
    /\ \/ LET indices == findQueueFamilies(gpus[m_gpu].families, Operations)
          IN  /\ requestedFamilies' = {indices.graphicsFamily, indices.presentFamily}
              /\ m_queues' = indices
              /\ live' = live \cup {"device"}
              /\ Goto("createCommandPool")
       \/ UNCHANGED <<live, m_queues, requestedFamilies>> /\ Throw("~GenericWindow")
    /\ UNCHANGED <<extensions, m_gpu, poolFamily>>

\* The family is searched for again, with other operations; value() throws if
\* there is none.
CreateCommandPool ==
    /\ pc = "createCommandPool"
    /\ LET family == findQueueFamilies(gpus[m_gpu].families, {"graphics"}).graphicsFamily
       IN  \/ /\ family # None
              /\ poolFamily' = family
              /\ live' = live \cup {"pool"}
              /\ Goto("createGraphicsPipeline")
           \/ UNCHANGED <<live, poolFamily>> /\ Throw("~GenericWindow")
    /\ UNCHANGED <<extensions, m_gpu, m_queues, requestedFamilies>>

\* It fills in everything but the handles, which stay null.
defaultPipelineConfigInfo == [pipelineLayout |-> None, renderPass |-> None]

\* What follows the check of the configuration cannot be reached.
CreateGraphicsPipeline ==
    /\ pc = "createGraphicsPipeline"
    /\ None \in {defaultPipelineConfigInfo.pipelineLayout,
                 defaultPipelineConfigInfo.renderPass}
    /\ Throw("~GenericWindow")
    /\ UNCHANGED <<created, choices>>

-----------------------------------------------------------------------------
(***************************************************************************)
(* Unwinding: the members of application::Core in the reverse order of     *)
(* their declaration, and those of vulkan::Core likewise.                  *)
(***************************************************************************)

\* One destructor, or one call of cleanUp, that destroys what it is given, or
\* is given a null handle and does nothing.
Destroys(function, objects, next) ==
    /\ pc = function
    /\ live' = live \ objects
    /\ Goto(next)
    /\ UNCHANGED <<extensions, choices>>

\* A Vulkan function that is called on a null parent: the loader may crash.
MayCrash(function, parent) ==
    /\ pc = function
    /\ parent \notin live
    /\ Crash
    /\ UNCHANGED <<created, choices>>

DestroyWindow == Destroys("~GenericWindow", {"window", "glfw"}, "~Pipeline")

\* The pipeline has no shader module and no pipeline to destroy, as it always
\* throws before it creates them.
DestroyPipeline ==
    \/ Destroys("~Pipeline", {}, "vkDestroyCommandPool")
    \/ MayCrash("~Pipeline", "device")

DestroyCommandPool ==
    \/ Destroys("vkDestroyCommandPool", {"pool"}, "vkDestroyDevice")
    \/ MayCrash("vkDestroyCommandPool", "device")

\* Slip: cleanUp leaves the device to vkDestroyInstance.
DestroyDevice_ == Destroys("vkDestroyDevice", {}, "DestroyDebugUtilsMessengerEXT")

DestroyDevice == Destroys("vkDestroyDevice", {"device"}, "DestroyDebugUtilsMessengerEXT")

\* Called in validation builds only, and it finds the function if the instance
\* has the extension.
DestroyDebugUtilsMessenger ==
    Destroys("DestroyDebugUtilsMessengerEXT",
             IF ValidationLayersEnabled /\ "debugUtils" \in extensions
             THEN {"messenger"} ELSE {},
             "vkDestroySurfaceKHR")

\* Slip: cleanUp forgets the surface.
DestroySurface_ ==
    \/ Destroys("vkDestroySurfaceKHR", {}, "vkDestroyInstance")
    \/ MayCrash("vkDestroySurfaceKHR", "instance")

DestroySurface ==
    \/ Destroys("vkDestroySurfaceKHR", {"surface"}, "vkDestroyInstance")
    \/ MayCrash("vkDestroySurfaceKHR", "instance")

DestroyInstance == Destroys("vkDestroyInstance", {"instance"}, "unwound")

Next ==
    \/ InitWindow
    \/ CreateVulkanInstance
    \/ CreateInstanceFails
    \/ SetupDebugger
    \/ CreatePresentationSurface
    \/ PickGpu
    \/ CreateLogicalDevice
    \/ CreateCommandPool
    \/ CreateGraphicsPipeline
    \/ DestroyWindow
    \/ DestroyPipeline
    \/ DestroyCommandPool
    \/ DestroyDevice
    \/ DestroyDebugUtilsMessenger
    \/ DestroySurface
    \/ DestroyInstance

Spec == Init /\ [][Next]_vars

-----------------------------------------------------------------------------
(***************************************************************************)
(* Properties.                                                             *)
(***************************************************************************)

\* Every variable has its type, and a device is only created from one that was
\* picked.
TypeOK ==
    /\ ValidationLayersEnabled \in BOOLEAN
    /\ gpus \in Seq(Gpu)
    /\ pc \in Setup \cup Teardown \cup Ended
    /\ live \subseteq Objects
    /\ extensions \subseteq {"glfw", "debugUtils"}
    /\ m_gpu \in {None} \cup DOMAIN gpus
    /\ pc \in {"createLogicalDevice", "createCommandPool"} => m_gpu # None
    /\ m_queues \in [{"graphicsFamily", "presentFamily"} -> Nat]
    /\ requestedFamilies \subseteq Nat
    /\ poolFamily \in Nat

\* Whatever stage throws, no object outlives the one that it was created from.
\* (That the window belongs to this list too is WindowKept below.)
ChildrenFirst ==
    /\ "pool" \in live => "device" \in live
    /\ {"device", "messenger", "surface"} \cap live # {} => "instance" \in live
    /\ "window" \in live => "glfw" \in live

\* Whatever stage throws, when the stack has been unwound nothing is left behind;
\* but for GLFW, if the set-up did not get as far as an instance: it stays
\* initialised when the constructor of the window throws.
AllReleased ==
    pc = "unwound" => live = {} \/ (live = {"glfw"} /\ extensions = {})

\* The device that is picked is the first that is suitable, in terms of what it
\* offers and not of the order of the search, and the search throws on the way
\* to it only at a device without extensions; when pickGpu ends without a
\* device, each that is suitable comes after one at which the search threw.
Suitable(gpu) ==
    /\ \E f \in DOMAIN gpu.families : HasOperations(gpu.families[f], Operations)
    /\ \E f \in DOMAIN gpu.families : HasPresentation(gpu.families[f])
    /\ gpu.extensions = "swapchain" /\ gpu.swapChain /\ gpu.samplerAnisotropy

FirstSuitablePicked ==
    /\ pc = "createLogicalDevice" =>
        /\ Suitable(gpus[m_gpu])
        /\ \A n \in 1 .. m_gpu - 1 : ~Suitable(gpus[n]) /\ ~Throws(gpus[n])
    /\ pc = "~GenericWindow" /\ "surface" \in live /\ m_gpu = None =>
        \A n \in DOMAIN gpus : Suitable(gpus[n]) => \E k \in 1 .. n - 1 : Throws(gpus[k])

\* createLogicalDevice searches the families again and takes both indices to be
\* there: they are, of families that have a queue and that the device was created
\* with.  The family of m_presentQueue can present.  That of m_graphicsQueue
\* offers one of the Operations, whichever: it may have no graphics, as the run of
\* PoolFeedsGraphicsQueue shows.
QueuesFound ==
    "device" \in live =>
        LET families == gpus[m_gpu].families
        IN  /\ {m_queues.graphicsFamily, m_queues.presentFamily} \subseteq requestedFamilies
            /\ HasOperations(families[m_queues.graphicsFamily], Operations)
            /\ HasPresentation(families[m_queues.presentFamily])

\* vk_gpu_wrapper.h:142 says of the command pool that "the commands will be
\* submitted to Queues": endSingleTimeCommands submits its command buffers to
\* m_graphicsQueue, which takes those of its own family only.  The pool's family
\* has graphics, so that m_graphicsQueue would be one of "queue families with
\* graphics and presentation support", as vk_gpu_wrapper.cpp:228 has it.
PoolFeedsGraphicsQueue ==
    "pool" \in live => poolFamily = m_queues.graphicsFamily

\* vk_gpu_wrapper.h:151 says that the wrapper has a "Shared pointer to GLFW
\* type window that we are presenting on": the window lives as long as the
\* surface that presents on it.
WindowKept == "surface" \in live => "window" \in live
=============================================================================
